---------------------------- MODULE Spec2Model ----------------------------
(***************************************************************************)
(* Browser instance lifecycle of pydoll_mcp/browser_manager.py:            *)
(* BrowserManager, BrowserPool and BrowserInstance on one asyncio event    *)
(* loop.  Coroutines are processes; `cur' is the coroutine that currently  *)
(* runs (0: the loop is free to pick any runnable coroutine).  A coroutine *)
(* keeps `cur' until it reaches a real suspension point: an await of the   *)
(* external library, of asyncio.sleep, of another task, or of a held lock. *)
(***************************************************************************)
EXTENDS Integers, Sequences, FiniteSets, TLC

\* ---- bounds of the model
NumCallers == 2      \* coroutines that call the manager's public methods
MaxIds     == 3      \* browser ids _generate_browser_id may hand out
MaxTime    == 2      \* last value of the clock
MaxPTasks  == 2      \* periodic tasks start() may create
MaxErrors  == 2      \* injected release failures (FaultSpec only)
MaxTabIds  == 4      \* tab ids handed out before new_tab stops being called
MaxBuilds  == 3      \* direct calls of _get_browser_options
MaxOps     == 4      \* navigations recorded by one metrics collector
FloatBits  == 3      \* bits of the significand of a float (for the 53 of a
                     \* double), where the rounding of float arithmetic counts

\* ---- configuration (BrowserManager.__init__, read from the environment)
max_browsers == 2
idle_timeout == 1
max_history  == 100  \* BrowserMetrics(max_history=100)
max_tabs_per_browser == 2   \* PYDOLL_MAX_TABS_PER_BROWSER

Callers == 1..NumCallers
PTasks  == (NumCallers + 1)..(NumCallers + MaxPTasks)
Procs   == Callers \cup PTasks
Ids     == 1..MaxIds
Kinds   == {"chrome", "edge", "firefox"}
TabIds  == 1..(MaxTabIds + 1)

VARIABLES
    browsers,        \* BrowserManager.browsers: the keys, in insertion order
    global_stats,    \* BrowserManager.global_stats
    options_cache,   \* BrowserManager._options_cache: cache key -> options
    is_running,      \* BrowserManager._is_running
    cleanup_task,    \* BrowserManager._cleanup_task (0: None)
    cancel_req,      \* periodic tasks with a cancellation pending
    available,       \* BrowserPool.available (deque)
    in_use,          \* BrowserPool.in_use
    lock,            \* BrowserPool._lock: 0 or the coroutine holding it
    instances,       \* the BrowserInstance objects constructed so far, by id
    proc,            \* the external browser process of each id
    cleanup_calls,   \* how often the pool invoked BrowserInstance.cleanup, by id
    now,             \* time.time()
    nextId,          \* next id of _generate_browser_id
    nextTab,         \* next id of _generate_tab_id
    pc,              \* where each coroutine stands
    op,              \* the public method a caller is in
    arg,             \* browser_id of the call, the pair (browser_id, tab_id)
                     \* of get_tab_with_fallback, or the task stop() awaits
    browser_type,    \* the browser_type argument of create_browser
    ids,             \* the list a destroy loop iterates over
    idx,             \* position of that loop in ids
    result,          \* outcome of the call that just returned
    ret,             \* the value the call returned: an instance id or a tab
                     \* id (0: None), the pair (tab, tab_id)
    cur              \* the coroutine that is running (0: none)

vars == << browsers, global_stats, options_cache, is_running, cleanup_task,
           cancel_req,
           available, in_use, lock, instances, proc, cleanup_calls, now,
           nextId, nextTab, pc, op, arg, browser_type, ids, idx,
           result, ret, cur >>

mgrVars   == << browsers, global_stats, options_cache, is_running,
               cleanup_task, cancel_req >>
poolVars  == << available, in_use, lock >>
instVars  == << instances, proc, cleanup_calls, nextId, nextTab >>

Range(s) == { s[i] : i \in 1..Len(s) }

Remove(s, x) == SelectSeq(s, LAMBDA y : y # x)

\* BrowserInstance.get_idle_time
get_idle_time(i) == now - instances[i].last_activity

\* BrowserMetrics.__init__, lines 38-44 (memory_usage and cpu_usage are
\* never written)
BrowserMetrics(history) ==
    [ max_history |-> history, navigation_times |-> << >>,
      total_operations |-> 0, error_count |-> 0 ]

\* an instance whose initial tab is not registered
NewInstanceNoTab(tab) ==
    [ is_active |-> TRUE, tabs |-> {}, active_tab_id |-> 0,
      last_activity |-> now, total_tabs_created |-> 0 ]
      @@ BrowserMetrics(max_history)

\* BrowserInstance.__init__ followed by the registration of the initial
\* tab; the fields of instance.metrics and the counter
\* stats["total_tabs_created"] are kept in the same record
NewInstance(tab) ==
    [ is_active |-> TRUE, tabs |-> {tab}, active_tab_id |-> tab,
      last_activity |-> now, total_tabs_created |-> 0 ]
      @@ BrowserMetrics(max_history)

\* the startup time is not recorded
record_nothing(rec, duration) == rec

\* BrowserMetrics.record_navigation, lines 46-49; the deque keeps the last
\* max_history samples.  In the metrics of an instance a sample is named by
\* what was timed: "startup" is time.time() - start_time of lines 506-508.
record_navigation(rec, duration) ==
    [ rec EXCEPT
        !.navigation_times = IF Len(@) >= rec.max_history
                               THEN Append(Tail(@), duration)
                               ELSE Append(@, duration),
        !.total_operations = @ + 1 ]

Init ==
    /\ browsers = << >>
    /\ global_stats = [ total_browsers_created |-> 0,
                        total_browsers_destroyed |-> 0,
                        total_errors |-> 0,
                        cache_hits |-> 0, cache_misses |-> 0 ]
    /\ options_cache = << >>
    /\ is_running = FALSE
    /\ cleanup_task = 0
    /\ cancel_req = {}
    /\ available = << >>
    /\ in_use = {}
    /\ lock = 0
    /\ instances = << >>
    /\ proc = [ i \in Ids |-> "none" ]
    /\ cleanup_calls = [ i \in Ids |-> 0 ]
    /\ now = 0
    /\ nextId = 1
    /\ nextTab = 1
    /\ pc = [ p \in Procs |-> IF p \in Callers THEN "idle" ELSE "unborn" ]
    /\ op = [ p \in Procs |-> IF p \in Callers THEN "none" ELSE "periodic" ]
    /\ arg = [ p \in Procs |-> 0 ]
    /\ browser_type = [ p \in Procs |-> "none" ]
    /\ ids = [ p \in Procs |-> << >> ]
    /\ idx = [ p \in Procs |-> 1 ]
    /\ result = [ p \in Procs |-> "none" ]
    /\ ret = [ p \in Procs |-> 0 ]
    /\ cur = 0


\* BrowserPool.__init__ is given max_size = max_browsers (line 213)
max_size == max_browsers

\* BrowserInstance.cleanup: the tab map is cleared before the process is
\* stopped, and is_active is cleared only when browser.stop() did not raise
Cleanup(rec, stop_ok) ==
    [ rec EXCEPT !.tabs = {}, !.is_active = IF stop_ok THEN FALSE ELSE @ ]

\* ---- BrowserMetrics: the derived values, lines 51-65

RECURSIVE Pow2(_)
Pow2(n) == IF n = 0 THEN 1 ELSE 2 * Pow2(n - 1)

\* Durations are floats.  A float is written as the integer number of units
\* it holds; with a significand of FloatBits bits the integers below
\* 2^FloatBits are floats, and above them every 2nd, 4th, ... integer.
\* Exponent(x): how many low bits the float nearest to x has lost.
RECURSIVE Exponent(_)
Exponent(x) == IF x < Pow2(FloatBits) THEN 0 ELSE 1 + Exponent(x \div 2)

\* the float nearest to the integer x, ties to the even significand
Round(x) ==
    LET k == Exponent(x)
        q == x \div Pow2(k)
        r == x % Pow2(k)
    IN IF k = 0 THEN x
       ELSE Pow2(k) * (IF 2 * r > Pow2(k) \/ (2 * r = Pow2(k) /\ q % 2 = 1)
                         THEN q + 1 ELSE q)

\* the samples a caller records: the floats of one binade
Durations == Pow2(FloatBits - 1)..(Pow2(FloatBits) - 1)

\* sum(self.navigation_times): a left fold of float additions from 0
RECURSIVE float_sum(_, _)
float_sum(acc, samples) ==
    IF samples = << >> THEN acc
    ELSE float_sum(Round(acc + Head(samples)), Tail(samples))

\* the float division total / n for a total of n samples of Durations: the
\* quotient lies in the binade of the samples, where the floats are the
\* integers
float_div(total, n) ==
    LET q == total \div n
        r == total % n
    IN IF 2 * r > n \/ (2 * r = n /\ q % 2 = 1) THEN q + 1 ELSE q

\* BrowserMetrics.get_avg_navigation_time, lines 51-55
get_avg_navigation_time(rec) ==
    IF rec.navigation_times = << >> THEN 0
    ELSE float_div(float_sum(0, rec.navigation_times),
                   Len(rec.navigation_times))

\* BrowserMetrics.record_error, lines 57-59
record_error(rec) == [ rec EXCEPT !.error_count = @ + 1 ]

\* the error rate taken over the samples of the window
get_error_rate_of_window(rec) ==
    IF rec.navigation_times = << >> THEN << 0, 1 >>
    ELSE << rec.error_count * 100, Len(rec.navigation_times) >>

\* BrowserMetrics.get_error_rate, lines 61-65, as the exact quotient
\* << numerator, denominator >> of which the float returned is the nearest
\* double
get_error_rate(rec) ==
    IF rec.total_operations = 0 THEN << 0, 1 >>
    ELSE << rec.error_count * 100, rec.total_operations >>

\* ---- the options cache, lines 299-320 and 457-460

\* The keyword arguments of an options build: a set of (name, value) pairs.
\* Widths: values of window_width a caller may pass.
Widths == {-2, -1, 1920}

Kwargs ==
    { {} } \cup { { << "window_width", w >> } : w \in Widths }
           \cup { { << "window_width", 1920 >>, << "window_height", 1080 >> } }

\* the built-in hash() of an int of CPython: the integer itself, except that
\* -1, the error code of the C API, is replaced by -2
hash(v) == IF v = -1 THEN -2 ELSE v

\* lines 305-314: hash(frozenset(hashable_kwargs.items())), a function of
\* the hashes of the values under each name.  (The names are strings, whose
\* hashes differ, and the hash of the frozenset is written as the set of
\* the hashes it combines.)
cache_key(kwargs) == { << kv[1], hash(kv[2]) >> : kv \in kwargs }

\* _get_browser_options(**kwargs) on a frame: a hit returns the cached
\* object (316-319); a miss counts, builds a new options object from the
\* keyword arguments and caches it (321-460).  An options object is the
\* record of its serial number and of what it was built from.
get_browser_options(f, kwargs) ==
    LET key == cache_key(kwargs) IN
    IF key \in DOMAIN f.cache
      THEN [ f EXCEPT !.stats.cache_hits = @ + 1, !.ret = f.cache[key] ]
      ELSE LET options == [ serial |-> f.stats.cache_misses + 1,
                            built_from |-> kwargs ]
           IN [ f EXCEPT !.stats.cache_misses = @ + 1,
                         !.cache = (key :> options) @@ @,
                         !.ret = options ]

\* the options create_browser builds at line 495: it is called without
\* keyword arguments, and _check_existing_chrome_processes (489-492) finds
\* no process with chrome in its name
BuildOptions(f) == [ get_browser_options(f, {}) EXCEPT !.ret = f.ret ]

\* ---- the part of the state a run of destroy_browser calls works on

Here ==
    [ browsers |-> browsers, available |-> available, in_use |-> in_use,
      stats |-> global_stats, i |-> 1, out |-> "finished" ]

\* the capacity test with the comparison off by one
LimitReachedLate(brs) == Len(brs) > max_browsers

\* the capacity test of create_browser (lines 474 and 478)
LimitReached(brs) == Len(brs) >= max_browsers

\* lines 624-626: del self.browsers[browser_id] and the counter
Deleted(st, id) ==
    [ st EXCEPT !.browsers = Remove(@, id),
                !.stats.total_browsers_destroyed = @ + 1 ]

\* lines 630-633: the counter of the except branch
Failed(st) == [ st EXCEPT !.stats.total_errors = @ + 1 ]

\* release without the test of the size of the deque
ReleaseUnbounded(st, id) ==
    IF id \notin st.in_use
      THEN [ st EXCEPT !.out = "released" ]
      ELSE IF instances[id].is_active
      THEN [ st EXCEPT !.in_use = @ \ {id}, !.available = Append(@, id),
                       !.out = "released" ]
      ELSE [ st EXCEPT !.in_use = @ \ {id}, !.out = "teardown" ]

\* release that leaves the pooled instance in in_use
ReleaseStillTracked(st, id) ==
    IF id \notin st.in_use
      THEN [ st EXCEPT !.out = "released" ]
      ELSE IF Len(st.available) < max_size /\ instances[id].is_active
      THEN [ st EXCEPT !.available = Append(@, id), !.out = "released" ]
      ELSE [ st EXCEPT !.in_use = @ \ {id}, !.out = "teardown" ]

\* release that pools an instance the pool never handed out
ReleasePoolsUntracked(st, id) ==
    IF Len(st.available) < max_size /\ instances[id].is_active
      THEN [ st EXCEPT !.in_use = @ \ {id}, !.available = Append(@, id),
                       !.out = "released" ]
      ELSE IF id \in st.in_use
      THEN [ st EXCEPT !.in_use = @ \ {id}, !.out = "teardown" ]
      ELSE [ st EXCEPT !.out = "released" ]

\* BrowserPool.release, lines 177-185, up to its await of instance.cleanup():
\* an instance that is not in in_use is left alone
Release(st, id) ==
    IF id \notin st.in_use
      THEN [ st EXCEPT !.out = "released" ]
      ELSE IF Len(st.available) < max_size /\ instances[id].is_active
      THEN [ st EXCEPT !.in_use = @ \ {id}, !.available = Append(@, id),
                       !.out = "released" ]
      ELSE [ st EXCEPT !.in_use = @ \ {id}, !.out = "teardown" ]

\* destroy_browser with the lookup of line 612 raising for an unknown id
DestroyOneKeyError(st, id, rel, lk) ==
    IF id \notin Range(st.browsers)
      THEN [ Failed(st) EXCEPT !.out = "raised" ]
      ELSE IF lk # 0
      THEN [ st EXCEPT !.out = "lock_wait" ]
      ELSE IF rel = "raise"
      THEN [ Failed(st) EXCEPT !.out = "raised" ]
      ELSE LET r == Release(st, id) IN
           IF r.out = "teardown" THEN r
           ELSE [ Deleted(r, id) EXCEPT !.out = "ok" ]

\* destroy_browser(id), lines 611-633, as far as it runs without being
\* suspended.  lk: the holder of the pool's lock; rel = "raise": the release
\* step raises.  out: "ok" (destroyed, or not found), "raised", "lock_wait"
\* (suspended at async with self._lock) or "teardown" (suspended in release
\* at await instance.cleanup(), the lock held).
DestroyOne(st, id, rel, lk) ==
    IF id \notin Range(st.browsers)
      THEN [ st EXCEPT !.out = "ok" ]
      ELSE IF lk # 0
      THEN [ st EXCEPT !.out = "lock_wait" ]
      ELSE IF rel = "raise"
      THEN [ Failed(st) EXCEPT !.out = "raised" ]
      ELSE LET r == Release(st, id) IN
           IF r.out = "teardown" THEN r
           ELSE [ Deleted(r, id) EXCEPT !.out = "ok" ]

\* The destroy_browser calls for list[i], list[i+1], ... as far as they run
\* without being suspended: the loops of cleanup_all (640-644) and
\* _cleanup_idle_browsers (658-663), which log a failure and go on, and the
\* single call of a caller of destroy_browser (propagate), who gets it.
RECURSIVE RunLoop(_, _, _, _, _, _)
RunLoop(list, i, rels, st, lk, propagate) ==
    IF i > Len(list)
      THEN [ st EXCEPT !.i = i, !.out = "finished" ]
      ELSE LET r == DestroyOne(st, list[i], rels[i], lk) IN
           IF r.out \in {"lock_wait", "teardown"} \/ (r.out = "raised" /\ propagate)
             THEN [ r EXCEPT !.i = i ]
             ELSE RunLoop(list, i + 1, rels, r, lk, propagate)

\* the idle test with >= for >
IdleBrowsersAtTimeout ==
    SelectSeq(browsers, LAMBDA i : get_idle_time(i) >= idle_timeout)

\* the first loop of _cleanup_idle_browsers (651-656): the idle ids, in
\* the order of the map
IdleBrowsers == SelectSeq(browsers, LAMBDA i : get_idle_time(i) > idle_timeout)

\* the outcomes of the release steps of a loop over list
Outcomes(list, R) == [ 1..Len(list) -> R ]

\* injected failures stay within MaxErrors
Bounded(rels, r) ==
    \/ \A i \in DOMAIN rels : rels[i] = "ok"
    \/ r.stats.total_errors <= MaxErrors

\* ---- what a step leaves behind: the values of the variables it may change

Same(p) ==
    [ browsers |-> browsers, available |-> available, in_use |-> in_use,
      stats |-> global_stats, cache |-> options_cache, lock |-> lock,
      cleanup_calls |-> cleanup_calls,
      nextId |-> nextId, pc |-> pc[p], ids |-> ids[p], idx |-> idx[p],
      arg |-> arg[p], btype |-> browser_type[p], result |-> result[p],
      ret |-> ret[p], cur |-> 0 ]

Commit(p, f) ==
    /\ browsers' = f.browsers
    /\ available' = f.available
    /\ in_use' = f.in_use
    /\ global_stats' = f.stats
    /\ options_cache' = f.cache
    /\ lock' = f.lock
    /\ cleanup_calls' = f.cleanup_calls
    /\ nextId' = f.nextId
    /\ pc' = [pc EXCEPT ![p] = f.pc]
    /\ ids' = [ids EXCEPT ![p] = f.ids]
    /\ idx' = [idx EXCEPT ![p] = f.idx]
    /\ arg' = [arg EXCEPT ![p] = f.arg]
    /\ browser_type' = [browser_type EXCEPT ![p] = f.btype]
    /\ result' = [result EXCEPT ![p] = f.result]
    /\ ret' = [ret EXCEPT ![p] = f.ret]
    /\ cur' = f.cur

\* the state a run of destroy_browser calls has left
After(p, kind, list, r, lk) ==
    [ Same(p) EXCEPT !.btype = kind, !.browsers = r.browsers, !.available = r.available,
                     !.in_use = r.in_use, !.stats = r.stats, !.lock = lk,
                     !.ids = list, !.idx = r.i ]

\* the call returns (or raises) to its caller, which runs on with the
\* result in hand
Finish(f, t, res, r) ==
    [ f EXCEPT !.pc = "done", !.result = res, !.ret = r, !.cur = t ]

\* create_browser with the browser kind rejected outside the try block
GatePassedUncounted(f, t, kind, ctor_ok) ==
    LET g == BuildOptions([ f EXCEPT !.nextId = @ + 1 ]) IN
    IF kind \notin {"chrome", "edge"}
      THEN Finish(g, t, "InvalidArgument", 0)
      ELSE IF ~ctor_ok
      THEN Finish([ g EXCEPT !.stats.total_errors = @ + 1 ], t,
                  "BrowserStartFailure", 0)
      ELSE [ g EXCEPT !.pc = "starting", !.arg = f.nextId, !.btype = "none",
                      !.ids = << >>, !.idx = 1, !.cur = 0 ]

\* lines 481-507: the id is generated, the options built, the browser
\* object constructed and browser.start() awaited.  browser_type and the locals of the idle sweep
\* are not read again by anything modelled here, and the model lets go of
\* them.
GatePassed(f, t, kind, ctor_ok) ==
    LET g == BuildOptions([ f EXCEPT !.nextId = @ + 1 ]) IN
    IF kind \notin {"chrome", "edge"}
      THEN Finish([ g EXCEPT !.stats.total_errors = @ + 1 ], t,
                  "InvalidArgument", 0)
      ELSE IF ~ctor_ok
      THEN Finish([ g EXCEPT !.stats.total_errors = @ + 1 ], t,
                  "BrowserStartFailure", 0)
      ELSE [ g EXCEPT !.pc = "starting", !.arg = f.nextId, !.btype = "none",
                      !.ids = << >>, !.idx = 1, !.cur = 0 ]

\* create_browser without the second capacity test of line 478
CreateAfterSweepUnchecked(f, t, kind, ctor_ok) == GatePassed(f, t, kind, ctor_ok)

\* lines 478-479 and on: after the idle sweep
CreateAfterSweep(f, t, kind, ctor_ok) ==
    IF LimitReached(f.browsers)
      THEN Finish(f, t, "ResourceExhausted", 0)
      ELSE GatePassed(f, t, kind, ctor_ok)

\* BrowserPool.clear, lines 187-198, up to its first await of a cleanup
SeqOf(S) == CHOOSE s \in [1..Cardinality(S) -> S] : Range(s) = S

\* clear that cleans up the available instances only
PoolClearAvailable(f, t) ==
    IF f.lock # 0
      THEN [ f EXCEPT !.pc = "clear_wait", !.cur = 0 ]
      ELSE IF f.available = << >>
      THEN Finish([ f EXCEPT !.in_use = {} ], t, "ok", 0)
      ELSE LET all == f.available IN
           [ f EXCEPT !.lock = t, !.ids = all, !.idx = 1,
                      !.available = Tail(@),
                      !.cleanup_calls[all[1]] = @ + 1,
                      !.pc = "clearing", !.cur = 0 ]

PoolClear(f, t) ==
    IF f.lock # 0
      THEN [ f EXCEPT !.pc = "clear_wait", !.cur = 0 ]
      ELSE IF f.available = << >> /\ f.in_use = {}
      THEN Finish(f, t, "ok", 0)
      ELSE LET all == f.available \o SeqOf(f.in_use) IN
           [ f EXCEPT !.lock = t, !.ids = all, !.idx = 1,
                      !.available = IF @ = << >> THEN @ ELSE Tail(@),
                      !.cleanup_calls[all[1]] = @ + 1,
                      !.pc = "clearing", !.cur = 0 ]

\* what follows the loop of destroy_browser calls in each method
LoopDone(f, p, o, kind, ctor_ok) ==
    CASE o = "create_browser" -> CreateAfterSweep(f, p, kind, ctor_ok)
      [] o = "destroy_browser" -> Finish(f, p, "ok", 0)
      [] o = "cleanup_all" ->                                  \* line 646
           Finish([ f EXCEPT !.browsers = << >> ], p, "ok", 0)
      [] o = "stop" ->                                  \* lines 646, 258
           PoolClear([ f EXCEPT !.browsers = << >> ], p)
      [] o = "periodic" ->                              \* lines 672-676
           [ f EXCEPT !.pc = "log_stats", !.cur = p ]

\* a run of destroy_browser calls has finished, raised to the caller of
\* destroy_browser, or is suspended
Proceed(p, o, kind, list, r, lk, ctor_ok) ==
    LET f == After(p, kind, list, r, lk) IN
    CASE r.out = "finished" -> LoopDone(f, p, o, kind, ctor_ok)
      [] r.out = "raised" -> Finish(f, p, "DestroyFailure", 0)
      [] r.out = "lock_wait" -> [ f EXCEPT !.pc = "lock_wait", !.cur = 0 ]
      [] r.out = "teardown" ->
           [ f EXCEPT !.pc = "teardown", !.cur = 0, !.lock = p,
                      !.cleanup_calls[list[r.i]] = @ + 1 ]

\* acquire that returns the head of the deque and leaves it there
AcquirePeek(f) ==
    IF f.available = << >>
      THEN [ f EXCEPT !.ret = 0 ]
      ELSE [ f EXCEPT !.in_use = @ \cup {Head(f.available)},
                      !.ret = Head(f.available) ]

\* acquire that takes the instance released last
AcquireLast(f) ==
    IF f.available = << >>
      THEN [ f EXCEPT !.ret = 0 ]
      ELSE LET n == Len(f.available) IN
           [ f EXCEPT !.available = SubSeq(@, 1, n - 1),
                      !.in_use = @ \cup {f.available[n]},
                      !.ret = f.available[n] ]

\* BrowserPool.acquire under the lock, lines 170-175: the head of the deque
\* moves to in_use and is returned (ret = 0: None)
Acquire(f) ==
    IF f.available = << >>
      THEN [ f EXCEPT !.ret = 0 ]
      ELSE [ f EXCEPT !.available = Tail(@),
                      !.in_use = @ \cup {Head(f.available)},
                      !.ret = Head(f.available) ]

\* ---- create_browser

\* lines 462-507, with the idle sweep of lines 476 and 649-663
CreateBrowser(t, kind, ctor_ok, rels) ==
    /\ pc[t] = "idle"
    /\ cur = 0
    /\ lock = 0
    /\ \/ nextId <= MaxIds
       \/ available # << >>
       \/ LimitReached(browsers) /\ IdleBrowsers = << >>   \* no id is needed
    /\ op' = [op EXCEPT ![t] = "create_browser"]
    /\ IF available # << >>
         THEN \* BrowserPool.acquire found an instance
              LET f == Acquire([ Same(t) EXCEPT !.btype = kind ]) IN
              Commit(t, Finish(f, t, "ok", f.ret))
         ELSE IF ~LimitReached(browsers)
         THEN Commit(t, GatePassed([ Same(t) EXCEPT !.btype = kind ], t,
                                   kind, ctor_ok))
         ELSE /\ LET r == RunLoop(IdleBrowsers, 1, rels, Here, lock, FALSE) IN
                 /\ Bounded(rels, r)
                 /\ Commit(t, Proceed(t, "create_browser", kind, IdleBrowsers, r,
                                   lock, ctor_ok))
    /\ UNCHANGED << is_running, cleanup_task, cancel_req, instances, proc,
                    now, nextTab >>

\* lines 507-526: browser.start() returns a tab, returns nothing, or raises
StartReturns(t, outcome) ==
    /\ pc[t] = "starting"
    /\ cur = 0
    /\ LET id == arg[t] IN
       CASE outcome = "raise" ->
              /\ Commit(t, Finish([ Same(t) EXCEPT !.stats.total_errors = @ + 1 ],
                                  t, "BrowserStartFailure", 0))
              /\ UNCHANGED << instances, proc, nextTab >>
         [] outcome = "none" ->
              /\ proc' = [proc EXCEPT ![id] = "running"]
              /\ Commit(t, Finish([ Same(t) EXCEPT !.stats.total_errors = @ + 1 ],
                                  t, "InternalInvariantViolation", 0))
              /\ UNCHANGED << instances, nextTab >>
         [] outcome = "tab" ->
              /\ proc' = [proc EXCEPT ![id] = "running"]
              /\ instances' = instances @@
                    (id :> record_navigation(NewInstance(nextTab),
                                             "startup"))
              /\ nextTab' = nextTab + 1
              /\ Commit(t, [ Same(t) EXCEPT !.pc = "tab_init" ])
    /\ UNCHANGED << is_running, cleanup_task, cancel_req, now, op >>

\* lines 526-541: asyncio.sleep(1) and _ensure_tab_ready are over (their
\* failures are logged only); the instance is stored and returned
TabInitReturns(t) ==
    /\ pc[t] = "tab_init"
    /\ cur = 0
    /\ Commit(t, Finish([ Same(t) EXCEPT
                            !.browsers = IF arg[t] \in Range(@) THEN @
                                         ELSE Append(@, arg[t]),
                            !.stats.total_browsers_created = @ + 1 ],
                        t, "ok", arg[t]))
    /\ UNCHANGED << is_running, cleanup_task, cancel_req, instances, proc,
                    now, nextTab, op >>

\* ---- destroy_browser, cleanup_all, start, stop

\* lines 611-633
DestroyBrowser(t, id, rels) ==
    /\ pc[t] = "idle"
    /\ cur = 0
    /\ op' = [op EXCEPT ![t] = "destroy_browser"]
    /\ LET r == RunLoop(<< id >>, 1, rels, Here, lock, TRUE) IN
       /\ Bounded(rels, r)
       /\ Commit(t, [ Proceed(t, "destroy_browser", "none", << id >>, r, lock,
                              TRUE) EXCEPT !.arg = id ])
    /\ UNCHANGED << is_running, cleanup_task, cancel_req, instances, proc,
                    now, nextTab >>

\* lines 635-647
CleanupAll(t, rels) ==
    /\ pc[t] = "idle"
    /\ cur = 0
    /\ op' = [op EXCEPT ![t] = "cleanup_all"]
    /\ LET r == RunLoop(browsers, 1, rels, Here, lock, FALSE) IN
       /\ Bounded(rels, r)
       /\ Commit(t, Proceed(t, "cleanup_all", "none", browsers, r, lock, TRUE))
    /\ UNCHANGED << is_running, cleanup_task, cancel_req, instances, proc,
                    now, nextTab >>

Unborn == { p \in PTasks : pc[p] = "unborn" }

Min(S) == CHOOSE x \in S : \A y \in S : x <= y

\* lines 233-242
Start(t) ==
    /\ pc[t] = "idle"
    /\ cur = 0
    /\ is_running \/ Unborn # {}
    /\ op' = [op EXCEPT ![t] = "start"]
    /\ IF is_running
         THEN /\ pc' = [pc EXCEPT ![t] = "done"]
              /\ UNCHANGED << is_running, cleanup_task >>
         ELSE /\ is_running' = TRUE
              /\ cleanup_task' = Min(Unborn)
              /\ pc' = [pc EXCEPT ![t] = "done", ![Min(Unborn)] = "scheduled"]
    /\ result' = [result EXCEPT ![t] = "ok"]
    /\ cur' = t
    /\ UNCHANGED << browsers, global_stats, options_cache, cancel_req,
                    poolVars, instVars, now, arg, browser_type, ids, idx,
                    ret >>

\* lines 257-259 of stop(): cleanup_all and browser_pool.clear()
StopCleanup(t, rels) ==
    LET r == RunLoop(browsers, 1, rels, Here, lock, FALSE) IN
    /\ Bounded(rels, r)
    /\ Commit(t, Proceed(t, "stop", "none", browsers, r, lock, TRUE))

\* stop() that drops its task without cancelling it
StopDropsTask(t, rels) ==
    /\ pc[t] = "idle"
    /\ cur = 0
    /\ op' = [op EXCEPT ![t] = "stop"]
    /\ is_running' = FALSE
    /\ StopCleanup(t, rels)
    /\ UNCHANGED << cancel_req, cleanup_task, instances, proc, now, nextTab >>

\* lines 244-259: up to the await of the cancelled task or, with no task
\* left to wait for, to the end
Stop(t, rels) ==
    /\ pc[t] = "idle"
    /\ cur = 0
    /\ op' = [op EXCEPT ![t] = "stop"]
    /\ is_running' = FALSE
    /\ IF cleanup_task # 0 /\ pc[cleanup_task] # "finished"
         THEN /\ cancel_req' = cancel_req \cup {cleanup_task}
              /\ Commit(t, [ Same(t) EXCEPT !.pc = "await_task",
                                            !.arg = cleanup_task ])
         ELSE /\ StopCleanup(t, rels)
              /\ UNCHANGED cancel_req
    /\ UNCHANGED << cleanup_task, instances, proc, now, nextTab >>

\* stop() going on without waiting for the cancelled task to end
StopResumesNoAwait(t, rels) ==
    /\ pc[t] = "await_task"
    /\ cur = 0
    /\ StopCleanup(t, rels)
    /\ UNCHANGED << is_running, cleanup_task, cancel_req, instances, proc,
                    now, nextTab, op >>

\* lines 252-259: the awaited task has ended, its CancelledError is
\* swallowed, and stop() runs to its end
StopResumes(t, rels) ==
    /\ pc[t] = "await_task"
    /\ cur = 0
    /\ pc[arg[t]] = "finished"
    /\ StopCleanup(t, rels)
    /\ UNCHANGED << is_running, cleanup_task, cancel_req, instances, proc,
                    now, nextTab, op >>

\* the instances something still refers to once coroutine p has let go of
\* its locals: the map, the pool, the coroutines in the middle of a call
Live(p) ==
    Range(browsers) \cup Range(available) \cup in_use
      \cup { arg[q] : q \in { q \in Callers \ {p} :
                   pc[q] \in {"tab_init", "release_wait", "release_teardown",
                              "new_tab_wait", "navigating",
                              "in_tab_context"} } }
      \cup UNION { Range(ids[q]) : q \in { q \in Procs \ {p} :
                      pc[q] \in {"lock_wait", "teardown", "clearing"} } }

\* the unreferenced BrowserInstance objects are gone (their processes stay)
Collect(p) == [ i \in DOMAIN instances \cap Live(p) |-> instances[i] ]

\* ---- the periodic task, lines 665-681

\* the task runs for the first time: line 667, or the cancellation
PeriodicBegins(p) ==
    /\ pc[p] = "scheduled"
    /\ cur = 0
    /\ pc' = [pc EXCEPT ![p] = IF p \notin cancel_req /\ is_running
                                 THEN "sleeping" ELSE "finished"]
    /\ cancel_req' = cancel_req \ {p}
    /\ UNCHANGED << browsers, global_stats, options_cache, is_running,
                    cleanup_task, poolVars, instVars, now, op, arg,
                    browser_type, ids, idx, result, ret, cur >>

\* asyncio.sleep(cleanup_interval) ends: with the CancelledError (678-679)
\* or with the sweep of _cleanup_idle_browsers (670, 649-663)
PeriodicWakes(p, rels) ==
    /\ pc[p] = "sleeping"
    /\ cur = 0
    /\ IF p \in cancel_req
         THEN /\ cancel_req' = cancel_req \ {p}
              /\ Commit(p, [ Same(p) EXCEPT !.pc = "finished" ])
         ELSE /\ LET r == RunLoop(IdleBrowsers, 1, rels, Here, lock, FALSE) IN
                 /\ Bounded(rels, r)
                 /\ Commit(p, Proceed(p, "periodic", "none", IdleBrowsers, r, lock,
                                   TRUE))
              /\ UNCHANGED cancel_req
    /\ UNCHANGED << is_running, cleanup_task, instances, proc, now, nextTab,
                    op >>

\* the periodic task ending after its first sweep
PeriodicLogsOnce(p) ==
    /\ pc[p] = "log_stats"
    /\ cur = p
    /\ pc' = [pc EXCEPT ![p] = "finished"]
    /\ ids' = [ids EXCEPT ![p] = << >>]
    /\ idx' = [idx EXCEPT ![p] = 1]
    /\ cur' = 0
    /\ instances' = Collect(p)
    /\ UNCHANGED << mgrVars, poolVars, proc, cleanup_calls, nextId, nextTab,
                    now, op, arg, browser_type, result, ret >>

\* lines 672-676 and 667: the statistics are logged and the loop goes on
\* while the manager is running
PeriodicLogs(p) ==
    /\ pc[p] = "log_stats"
    /\ cur = p
    /\ pc' = [pc EXCEPT ![p] = IF is_running THEN "sleeping" ELSE "finished"]
    /\ ids' = [ids EXCEPT ![p] = << >>]
    /\ idx' = [idx EXCEPT ![p] = 1]
    /\ cur' = 0
    /\ instances' = Collect(p)
    /\ UNCHANGED << mgrVars, poolVars, proc, cleanup_calls, nextId, nextTab,
                    now, op, arg, browser_type, result, ret >>

\* the handler of lines 680-681 breaking out of the loop
PeriodicCatchesAndEnds(p) ==
    /\ pc[p] = "log_stats"
    /\ cur = p
    /\ pc' = [pc EXCEPT ![p] = "finished"]
    /\ result' = [result EXCEPT ![p] = "SweepError"]
    /\ ids' = [ids EXCEPT ![p] = << >>]
    /\ idx' = [idx EXCEPT ![p] = 1]
    /\ cur' = 0
    /\ instances' = Collect(p)
    /\ UNCHANGED << mgrVars, poolVars, proc, cleanup_calls, nextId, nextTab,
                    now, op, arg, browser_type, ret >>

\* lines 680-681 and 667: an exception other than CancelledError leaves the
\* body of the loop after the sweep (the logging of lines 672-676 raises);
\* it is logged and the loop goes on while the manager is running
PeriodicCatches(p) ==
    /\ pc[p] = "log_stats"
    /\ cur = p
    /\ pc' = [pc EXCEPT ![p] = IF is_running THEN "sleeping" ELSE "finished"]
    /\ result' = [result EXCEPT ![p] = "SweepError"]
    /\ ids' = [ids EXCEPT ![p] = << >>]
    /\ idx' = [idx EXCEPT ![p] = 1]
    /\ cur' = 0
    /\ instances' = Collect(p)
    /\ UNCHANGED << mgrVars, poolVars, proc, cleanup_calls, nextId, nextTab,
                    now, op, arg, browser_type, ret >>

\* ---- coroutines suspended inside the pool

\* the lock has become free for a destroy_browser suspended at line 179
LockGranted(p, ctor_ok, rels) ==
    /\ pc[p] = "lock_wait"
    /\ cur = 0
    /\ lock = 0
    /\ LET r == RunLoop(ids[p], idx[p], rels, Here, 0, op[p] = "destroy_browser") IN
       /\ Bounded(rels, r)
       /\ Commit(p, Proceed(p, op[p], browser_type[p], ids[p], r, 0, ctor_ok))
    /\ UNCHANGED << is_running, cleanup_task, cancel_req, instances, proc,
                    now, nextTab, op >>

\* instance.cleanup() awaited by release is over (lines 134-156, 185): the
\* lock is given up and destroy_browser goes on with line 625, where the id
\* may be gone from the map (KeyError)
TeardownReturns(p, stop_ok, ctor_ok, rels) ==
    /\ pc[p] = "teardown"
    /\ cur = 0
    /\ LET id == ids[p][idx[p]]
           gone == id \notin Range(browsers)
           st == IF gone THEN Failed(Here) ELSE Deleted(Here, id)
           r == IF gone /\ op[p] = "destroy_browser"
                  THEN [ st EXCEPT !.i = idx[p], !.out = "raised" ]
                  ELSE RunLoop(ids[p], idx[p] + 1, rels, st, 0,
                               op[p] = "destroy_browser")
       IN /\ instances' = [instances EXCEPT ![id] = Cleanup(@, stop_ok)]
          /\ proc' = [proc EXCEPT ![id] = IF stop_ok THEN "stopped" ELSE @]
          /\ Bounded(rels, r)
          /\ Commit(p, Proceed(p, op[p], browser_type[p], ids[p], r, 0, ctor_ok))
    /\ UNCHANGED << is_running, cleanup_task, cancel_req, now, nextTab, op >>

\* the lock has become free for the browser_pool.clear() of stop()
PoolClearBegins(t) ==
    /\ pc[t] = "clear_wait"
    /\ cur = 0
    /\ lock = 0
    /\ Commit(t, PoolClear(Same(t), t))
    /\ UNCHANGED << is_running, cleanup_task, cancel_req, instances, proc,
                    now, nextTab, op >>

\* a cleanup awaited by BrowserPool.clear is over; the next one is awaited
\* or, after the last, in_use is cleared and the lock given up
ClearTeardownReturns(t, stop_ok) ==
    /\ pc[t] = "clearing"
    /\ cur = 0
    /\ LET id == ids[t][idx[t]]
           f == [ Same(t) EXCEPT !.idx = @ + 1 ]
       IN /\ instances' = [instances EXCEPT ![id] = Cleanup(@, stop_ok)]
          /\ proc' = [proc EXCEPT ![id] = IF stop_ok THEN "stopped" ELSE @]
          /\ IF idx[t] < Len(ids[t])
               THEN Commit(t, [ f EXCEPT
                      !.available = IF @ = << >> THEN @ ELSE Tail(@),
                      !.cleanup_calls[ids[t][idx[t] + 1]] = @ + 1 ])
               ELSE Commit(t, Finish([ f EXCEPT !.in_use = {}, !.lock = 0 ],
                                     t, "ok", 0))
    /\ UNCHANGED << is_running, cleanup_task, cancel_req, now, nextTab, op >>

\* ---- the pool called by its client: acquire, release, clear

\* acquire(), lines 168-175
PoolAcquire(t) ==
    /\ pc[t] = "idle"
    /\ cur = 0
    /\ op' = [op EXCEPT ![t] = "acquire"]
    /\ IF lock # 0
         THEN Commit(t, [ Same(t) EXCEPT !.pc = "acquire_wait" ])
         ELSE LET f == Acquire(Same(t)) IN Commit(t, Finish(f, t, "ok", f.ret))
    /\ UNCHANGED << is_running, cleanup_task, cancel_req, instances, proc,
                    now, nextTab >>

\* the lock has become free for an acquire() suspended at line 170
AcquireGranted(t) ==
    /\ pc[t] = "acquire_wait"
    /\ cur = 0
    /\ lock = 0
    /\ LET f == Acquire(Same(t)) IN Commit(t, Finish(f, t, "ok", f.ret))
    /\ UNCHANGED << is_running, cleanup_task, cancel_req, instances, proc,
                    now, nextTab, op >>

\* release(instance) with the lock in hand, lines 180-185: it returns, or
\* is suspended at await instance.cleanup() with the lock held
Released(f, t, id) ==
    LET r == Release(Here, id)
        g == [ f EXCEPT !.available = r.available, !.in_use = r.in_use,
                        !.arg = id ]
    IN IF r.out = "teardown"
         THEN [ g EXCEPT !.lock = t, !.cleanup_calls[id] = @ + 1,
                         !.pc = "release_teardown", !.cur = 0 ]
         ELSE Finish(g, t, "ok", 0)

\* release(instance), lines 177-185, for an instance the client holds
PoolRelease(t, id) ==
    /\ pc[t] = "idle"
    /\ cur = 0
    /\ id \in DOMAIN instances
    /\ op' = [op EXCEPT ![t] = "release"]
    /\ IF lock # 0
         THEN Commit(t, [ Same(t) EXCEPT !.pc = "release_wait", !.arg = id ])
         ELSE Commit(t, Released(Same(t), t, id))
    /\ UNCHANGED << is_running, cleanup_task, cancel_req, instances, proc,
                    now, nextTab >>

\* the lock has become free for a release() suspended at line 179
ReleaseGranted(t) ==
    /\ pc[t] = "release_wait"
    /\ cur = 0
    /\ lock = 0
    /\ Commit(t, Released(Same(t), t, arg[t]))
    /\ UNCHANGED << is_running, cleanup_task, cancel_req, instances, proc,
                    now, nextTab, op >>

\* instance.cleanup() awaited by release() at line 185 is over: the lock is
\* given up and release() returns
ReleaseTeardownReturns(t, stop_ok) ==
    /\ pc[t] = "release_teardown"
    /\ cur = 0
    /\ instances' = [instances EXCEPT ![arg[t]] = Cleanup(@, stop_ok)]
    /\ proc' = [proc EXCEPT ![arg[t]] = IF stop_ok THEN "stopped" ELSE @]
    /\ Commit(t, Finish([ Same(t) EXCEPT !.lock = 0 ], t, "ok", 0))
    /\ UNCHANGED << is_running, cleanup_task, cancel_req, now, nextTab, op >>

\* clear(), lines 187-198
PoolClearCall(t) ==
    /\ pc[t] = "idle"
    /\ cur = 0
    /\ op' = [op EXCEPT ![t] = "clear"]
    /\ Commit(t, PoolClear(Same(t), t))
    /\ UNCHANGED << is_running, cleanup_task, cancel_req, instances, proc,
                    now, nextTab >>

\* ---- the tabs of an instance: BrowserManager.get_active_tab_id and the
\* ---- handlers of tools/browser_tools.py

\* the first key of the tab dict: tab ids are handed out in increasing order
\* and a dict keeps insertion order
first_tab_id(rec) == Min(rec.tabs)

\* get_active_tab_id that trusts the cached id
get_cached_tab_id(rec) == rec.active_tab_id

\* get_active_tab_id, lines 570-581, for an instance of the map: the id it
\* returns (0: None)
get_active_tab_id(rec) ==
    IF rec.active_tab_id # 0 /\ rec.active_tab_id \in rec.tabs
      THEN rec.active_tab_id
      ELSE IF rec.tabs # {} THEN first_tab_id(rec) ELSE 0

\* BrowserManager.get_active_tab_id(browser_id), lines 564-581
GetActiveTabId(t, id) ==
    /\ pc[t] = "idle"
    /\ cur = 0
    /\ op' = [op EXCEPT ![t] = "get_active_tab_id"]
    /\ IF id \notin Range(browsers)
         THEN /\ Commit(t, Finish([ Same(t) EXCEPT !.arg = id ], t, "ok", 0))
              /\ UNCHANGED instances
         ELSE LET tab == get_active_tab_id(instances[id]) IN
              /\ Commit(t, Finish([ Same(t) EXCEPT !.arg = id ], t, "ok", tab))
              /\ instances' = IF tab = 0 THEN instances
                              ELSE [instances EXCEPT ![id].active_tab_id = tab]
    /\ UNCHANGED << is_running, cleanup_task, cancel_req, proc, now, nextTab >>

\* get_tab_with_fallback that does not fall back to the active tab
get_tab_strict(rec, tab_id) ==
    LET a == get_active_tab_id(rec) IN
    IF tab_id = 0
      THEN IF a = 0 THEN [ out |-> "NotFound", tab |-> 0, tab_id |-> 0,
                           active_tab_id |-> rec.active_tab_id ]
           ELSE [ out |-> "ok", tab |-> a, tab_id |-> a, active_tab_id |-> a ]
      ELSE IF tab_id \in rec.tabs
      THEN [ out |-> "ok", tab |-> tab_id, tab_id |-> tab_id,
             active_tab_id |-> rec.active_tab_id ]
      ELSE [ out |-> "NotFound", tab |-> 0, tab_id |-> tab_id,
             active_tab_id |-> rec.active_tab_id ]

\* get_tab_with_fallback, lines 589-609, for an instance of the map and the
\* tab_id supplied (0: None).  The entry of the tab map under key k is
\* written k; tab is the entry returned, tab_id the id returned with it,
\* active_tab_id what the calls of get_active_tab_id leave in the instance.
get_tab_with_fallback(rec, tab_id) ==
    LET a == get_active_tab_id(rec) IN
    IF tab_id = 0
      THEN \* lines 590-596: the active tab, repaired
           IF a = 0 THEN [ out |-> "NotFound", tab |-> 0, tab_id |-> 0,
                           active_tab_id |-> rec.active_tab_id ]
           ELSE [ out |-> "ok", tab |-> a, tab_id |-> a, active_tab_id |-> a ]
      ELSE IF tab_id \in rec.tabs
      THEN \* line 596 finds the tab
           [ out |-> "ok", tab |-> tab_id, tab_id |-> tab_id,
             active_tab_id |-> rec.active_tab_id ]
      ELSE IF a # 0 /\ a # tab_id
      THEN \* lines 599-604
           [ out |-> "ok", tab |-> a, tab_id |-> a, active_tab_id |-> a ]
      ELSE \* line 607
           [ out |-> "NotFound", tab |-> 0, tab_id |-> tab_id,
             active_tab_id |-> IF a = 0 THEN rec.active_tab_id ELSE a ]

\* BrowserManager.get_tab_with_fallback(browser_id, tab_id), lines 583-609;
\* nothing in it suspends
GetTabWithFallback(t, id, tab_id) ==
    /\ pc[t] = "idle"
    /\ cur = 0
    /\ op' = [op EXCEPT ![t] = "get_tab_with_fallback"]
    /\ IF id \notin Range(browsers)
         THEN /\ Commit(t, Finish([ Same(t) EXCEPT !.arg = << id, tab_id >> ],
                                  t, "NotFound", 0))
              /\ UNCHANGED instances
         ELSE LET r == get_tab_with_fallback(instances[id], tab_id) IN
              /\ Commit(t, Finish([ Same(t) EXCEPT !.arg = << id, tab_id >> ],
                                  t, r.out,
                                  IF r.out = "ok" THEN << r.tab, r.tab_id >>
                                                  ELSE 0))
              /\ instances' = [instances EXCEPT
                                 ![id].active_tab_id = r.active_tab_id]
    /\ UNCHANGED << is_running, cleanup_task, cancel_req, proc, now, nextTab >>

\* handle_new_tab, browser_tools.py lines 381-416: up to the await of
\* browser.new_tab(); the tab id is generated before
NewTab(t, id) ==
    /\ pc[t] = "idle"
    /\ cur = 0
    /\ nextTab <= MaxTabIds
    /\ op' = [op EXCEPT ![t] = "new_tab"]
    /\ IF id \notin Range(browsers)
         THEN /\ Commit(t, Finish([ Same(t) EXCEPT !.arg = id ], t,
                                  "BrowserNotFound", 0))
              /\ UNCHANGED nextTab
         ELSE /\ Commit(t, [ Same(t) EXCEPT !.pc = "new_tab_wait", !.arg = id,
                                           !.ret = nextTab ])
              /\ nextTab' = nextTab + 1
    /\ UNCHANGED << is_running, cleanup_task, cancel_req, instances, proc,
                    now >>

\* handle_new_tab, lines 416-443: browser.new_tab() returns or raises;
\* background is the argument of the call, read at line 422 only.  The
\* handler reports success either way.
NewTabReturns(t, ok, background) ==
    /\ pc[t] = "new_tab_wait"
    /\ cur = 0
    /\ instances' =
         IF ok THEN [instances EXCEPT
                       ![arg[t]].tabs = @ \cup {ret[t]},
                       ![arg[t]].active_tab_id = IF background THEN @ ELSE ret[t],
                       ![arg[t]].total_tabs_created = @ + 1,
                       ![arg[t]].last_activity = now]
               ELSE instances
    /\ Commit(t, Finish(Same(t), t, "ok", ret[t]))
    /\ UNCHANGED << is_running, cleanup_task, cancel_req, proc, now, nextTab,
                    op >>

\* handle_close_tab, lines 455-490
CloseTab(t, id, tab) ==
    /\ pc[t] = "idle"
    /\ cur = 0
    /\ op' = [op EXCEPT ![t] = "close_tab"]
    /\ IF id \notin Range(browsers)
         THEN /\ Commit(t, Finish([ Same(t) EXCEPT !.arg = id ], t,
                                  "BrowserNotFound", 0))
              /\ UNCHANGED instances
         ELSE /\ Commit(t, Finish([ Same(t) EXCEPT !.arg = id ], t, "ok", tab))
              /\ instances' = [instances EXCEPT ![id].tabs = @ \ {tab}]
    /\ UNCHANGED << is_running, cleanup_task, cancel_req, proc, now, nextTab >>

\* handle_set_active_tab, lines 580-623
SetActiveTab(t, id, tab) ==
    /\ pc[t] = "idle"
    /\ cur = 0
    /\ op' = [op EXCEPT ![t] = "set_active_tab"]
    /\ IF id \notin Range(browsers)
         THEN /\ Commit(t, Finish([ Same(t) EXCEPT !.arg = id ], t,
                                  "BrowserNotFound", 0))
              /\ UNCHANGED instances
         ELSE IF tab \notin instances[id].tabs
         THEN /\ Commit(t, Finish([ Same(t) EXCEPT !.arg = id ], t,
                                  "TabNotFound", 0))
              /\ UNCHANGED instances
         ELSE /\ Commit(t, Finish([ Same(t) EXCEPT !.arg = id ], t, "ok", tab))
              /\ instances' = [instances EXCEPT ![id].active_tab_id = tab]
    /\ UNCHANGED << is_running, cleanup_task, cancel_req, proc, now, nextTab >>

\* stop_browser that does not look at the tabs
StopBrowserAnyway(t, id, force) ==
    /\ pc[t] = "idle"
    /\ cur = 0
    /\ lock = 0 /\ id \notin in_use
    /\ op' = [op EXCEPT ![t] = "stop_browser"]
    /\ LET r == DestroyOne(Here, id, "ok", lock) IN
       Commit(t, Finish([ Same(t) EXCEPT !.browsers = r.browsers,
                                         !.stats = r.stats,
                                         !.arg = << id, force >> ],
                        t, "ok", 0))
    /\ UNCHANGED << is_running, cleanup_task, cancel_req, instances, proc,
                    now, nextTab >>

\* handle_stop_browser, browser_tools.py lines 274-310, where
\* destroy_browser is not suspended (the lock of the pool is free and the
\* instance is not in in_use): without force a browser with open tabs is
\* left alone and failure is reported (ret: the number of open tabs)
StopBrowser(t, id, force) ==
    /\ pc[t] = "idle"
    /\ cur = 0
    /\ lock = 0 /\ id \notin in_use
    /\ op' = [op EXCEPT ![t] = "stop_browser"]
    /\ IF ~force /\ id \in Range(browsers) /\ instances[id].tabs # {}
         THEN Commit(t, Finish([ Same(t) EXCEPT !.arg = << id, force >> ],
                               t, "OpenTabs",
                               Cardinality(instances[id].tabs)))
         ELSE LET r == DestroyOne(Here, id, "ok", lock) IN
              Commit(t, Finish([ Same(t) EXCEPT !.browsers = r.browsers,
                                                !.stats = r.stats,
                                                !.arg = << id, force >> ],
                               t, "ok", 0))
    /\ UNCHANGED << is_running, cleanup_task, cancel_req, instances, proc,
                    now, nextTab >>

\* ---- operations on a tab: handle_navigate_to of tools/navigation_tools.py
\* ---- and BrowserInstance.tab_context

\* handle_navigate_to, navigation_tools.py lines 207-240: get_tab (lines
\* 552-562 of browser_manager.py) raises for an unknown browser or tab, and
\* the handler reports the failure; otherwise tab.go_to is awaited
NavigateTo(t, id, tab_id) ==
    /\ pc[t] = "idle"
    /\ cur = 0
    /\ op' = [op EXCEPT ![t] = "navigate_to"]
    /\ IF id \notin Range(browsers)
         THEN Commit(t, Finish([ Same(t) EXCEPT !.arg = id ], t,
                               "BrowserNotFound", 0))
         ELSE IF tab_id \notin instances[id].tabs
         THEN Commit(t, Finish([ Same(t) EXCEPT !.arg = id ], t,
                               "TabNotFound", 0))
         ELSE Commit(t, [ Same(t) EXCEPT !.pc = "navigating", !.arg = id,
                                         !.ret = tab_id ])
    /\ UNCHANGED << is_running, cleanup_task, cancel_req, instances, proc,
                    now, nextTab >>

\* handle_navigate_to, lines 240-269: go_to, get_url and get_title have
\* returned and the handler reports success, or one of them raised and it
\* reports the failure; the instance is not touched
NavigateReturns(t, ok) ==
    /\ pc[t] = "navigating"
    /\ cur = 0
    /\ Commit(t, Finish(Same(t), t, IF ok THEN "ok" ELSE "NavigationFailure",
                        ret[t]))
    /\ UNCHANGED << is_running, cleanup_task, cancel_req, instances, proc,
                    now, nextTab, op >>

\* async with instance.tab_context(tab_id), lines 119-127, for an instance
\* of the map: ValueError for an unknown tab, otherwise the tab is yielded
\* and the body runs
TabContextEnter(t, id, tab_id) ==
    /\ pc[t] = "idle"
    /\ cur = 0
    /\ id \in Range(browsers)
    /\ op' = [op EXCEPT ![t] = "tab_context"]
    /\ IF tab_id \notin instances[id].tabs
         THEN Commit(t, Finish([ Same(t) EXCEPT !.arg = id ], t,
                               "TabNotFound", 0))
         ELSE Commit(t, [ Same(t) EXCEPT !.pc = "in_tab_context", !.arg = id,
                                         !.ret = tab_id ])
    /\ UNCHANGED << is_running, cleanup_task, cancel_req, instances, proc,
                    now, nextTab >>

\* lines 127-132: what the exit of the body does to the instance.  The body
\* returns, raises an Exception, or raises a BaseException that is no
\* Exception (asyncio.CancelledError when the task is cancelled at an await
\* of the body), which the except clause of line 129 does not catch.
tab_context_exit(rec, exit) ==
    CASE exit = "return" -> [ rec EXCEPT !.last_activity = now ]  \* line 128
      [] exit = "raise"  -> [ rec EXCEPT !.error_count = @ + 1 ]  \* line 130
      [] exit = "cancel" -> rec

\* the body of the async with block is over
TabContextExit(t, exit) ==
    /\ pc[t] = "in_tab_context"
    /\ cur = 0
    /\ exit = "raise" => instances[arg[t]].error_count < MaxErrors
    /\ instances' = [instances EXCEPT ![arg[t]] = tab_context_exit(@, exit)]
    /\ Commit(t, Finish(Same(t), t,
                        CASE exit = "return" -> "ok"
                          [] exit = "raise"  -> "BodyError"
                          [] exit = "cancel" -> "CancelledError",
                        ret[t]))
    /\ UNCHANGED << is_running, cleanup_task, cancel_req, proc, now, nextTab,
                    op >>

\* _get_browser_options(**kwargs) called directly, lines 299-460: a
\* synchronous method
GetBrowserOptions(t, kwargs) ==
    /\ pc[t] = "idle"
    /\ cur = 0
    /\ global_stats.cache_hits + global_stats.cache_misses < MaxBuilds
    /\ op' = [op EXCEPT ![t] = "get_browser_options"]
    /\ LET f == get_browser_options([ Same(t) EXCEPT !.arg = kwargs ], kwargs)
       IN Commit(t, Finish(f, t, "ok", f.ret))
    /\ UNCHANGED << is_running, cleanup_task, cancel_req, instances, proc,
                    now, nextTab >>

\* ---- a BrowserMetrics collector called by its owner (caller 1); its
\* ---- methods are synchronous and return at once

\* a method of the collector changes the collector or returns a value
MetricsFrame ==
    UNCHANGED << mgrVars, poolVars, proc, cleanup_calls, nextId, nextTab, now,
                 pc, arg, browser_type, ids, idx, result, cur >>

RecordNavigation(duration) ==
    /\ instances[1].total_operations < MaxOps
    /\ instances' = [instances EXCEPT ![1] = record_navigation(@, duration)]
    /\ op' = [op EXCEPT ![1] = "record_navigation"]
    /\ ret' = [ret EXCEPT ![1] = 0]
    /\ MetricsFrame

RecordError ==
    /\ instances[1].error_count < MaxErrors
    /\ instances' = [instances EXCEPT ![1] = record_error(@)]
    /\ op' = [op EXCEPT ![1] = "record_error"]
    /\ ret' = [ret EXCEPT ![1] = 0]
    /\ MetricsFrame

GetAvgNavigationTime ==
    /\ op' = [op EXCEPT ![1] = "get_avg_navigation_time"]
    /\ ret' = [ret EXCEPT ![1] = get_avg_navigation_time(instances[1])]
    /\ UNCHANGED instances
    /\ MetricsFrame

GetErrorRate ==
    /\ op' = [op EXCEPT ![1] = "get_error_rate"]
    /\ ret' = [ret EXCEPT ![1] = get_error_rate(instances[1])]
    /\ UNCHANGED instances
    /\ MetricsFrame

\* ---- the environment

\* the caller has taken its result and yields to the event loop
Return(t) ==
    /\ pc[t] = "done"
    /\ cur = t
    /\ cur' = 0
    /\ pc' = [pc EXCEPT ![t] = "idle"]
    /\ op' = [op EXCEPT ![t] = "none"]
    /\ arg' = [arg EXCEPT ![t] = 0]
    /\ browser_type' = [browser_type EXCEPT ![t] = "none"]
    /\ ids' = [ids EXCEPT ![t] = << >>]
    /\ idx' = [idx EXCEPT ![t] = 1]
    /\ result' = [result EXCEPT ![t] = "none"]
    /\ ret' = [ret EXCEPT ![t] = 0]
    /\ instances' = Collect(t)
    /\ UNCHANGED << mgrVars, poolVars, proc, cleanup_calls, nextId, nextTab,
                    now >>

\* time passes while no coroutine runs
Tick ==
    /\ cur = 0
    /\ now < MaxTime
    /\ now' = now + 1
    /\ UNCHANGED << mgrVars, poolVars, instVars, pc, op, arg, browser_type,
                    ids, idx, result, ret, cur >>

\* ---- specifications

Quiescent == \A t \in Callers : pc[t] = "idle"

\* the public methods callers invoke.  R: the outcomes a release step may
\* have; G: when a call may begin
Calls(R, G) ==
    \E t \in Callers :
        \/ G /\ \E kind \in Kinds, ctor_ok \in BOOLEAN,
                   rels \in Outcomes(IdleBrowsers, R) :
                    CreateBrowser(t, kind, ctor_ok, rels)
        \/ G /\ \E id \in Ids : \E rels \in Outcomes(<< id >>, R) :
                    DestroyBrowser(t, id, rels)
        \/ G /\ \E rels \in Outcomes(browsers, R) : CleanupAll(t, rels)
        \/ G /\ Start(t)
        \/ G /\ \E rels \in Outcomes(browsers, R) : Stop(t, rels)

Steps(R) ==
    \/ \E t \in Callers :
        \/ \E outcome \in {"tab", "none", "raise"} : StartReturns(t, outcome)
        \/ TabInitReturns(t)
        \/ \E rels \in Outcomes(browsers, R) : StopResumes(t, rels)
        \/ Return(t)
    \/ \E p \in PTasks :
        \/ PeriodicBegins(p)
        \/ \E rels \in Outcomes(IdleBrowsers, R) : PeriodicWakes(p, rels)
        \/ PeriodicLogs(p)
    \/ Tick

\* Steps of coroutines suspended inside the pool.  No manager method puts
\* an instance into in_use, so under the manager's methods the lock is never
\* held across a suspension and these steps are never enabled.
PoolSteps(R) ==
    \E p \in Procs, ctor_ok \in BOOLEAN, stop_ok \in BOOLEAN :
        \/ \E rels \in Outcomes(ids[p], R) : LockGranted(p, ctor_ok, rels)
        \/ \E rels \in Outcomes(ids[p], R) :
               TeardownReturns(p, stop_ok, ctor_ok, rels)
        \/ PoolClearBegins(p)
        \/ ClearTeardownReturns(p, stop_ok)

\* callers overlap; the release step never raises
Next == Calls({"ok"}, TRUE) \/ Steps({"ok"})

Spec == Init /\ [][Next]_vars

\* each call runs to completion before the next starts (the periodic task
\* still runs in the background)
SeqNext == Calls({"ok"}, Quiescent) \/ Steps({"ok"})

SeqSpec == Init /\ [][SeqNext]_vars

\* The event loop runs every task that is ready: a caller that holds the
\* loop goes on to its next await, and a periodic task whose sleep is over is
\* run, however often callers take the loop in between (the ready queue of
\* asyncio is first in, first out).
LoopFairness ==
    /\ \A t \in Callers : WF_vars(Return(t))
    /\ \A p \in PTasks :
          /\ SF_vars(PeriodicBegins(p))
          /\ SF_vars(\E rels \in Outcomes(IdleBrowsers, {"ok"}) :
                        PeriodicWakes(p, rels))
          /\ WF_vars(PeriodicLogs(p))

\* calls one at a time, on an event loop that starves no task
LiveSpec == Init /\ [][SeqNext]_vars /\ LoopFairness

\* one life of the manager: it is started once, browsers are created while
\* it is running, and it is stopped; calls overlap, and none is made once
\* stop() has been called
ShutdownNext ==
    \/ \E t \in Callers :
          \/ cleanup_task = 0 /\ Start(t)
          \/ is_running /\ \E kind \in Kinds, ctor_ok \in BOOLEAN,
                                rels \in Outcomes(IdleBrowsers, {"ok"}) :
                                 CreateBrowser(t, kind, ctor_ok, rels)
          \/ is_running /\ \E rels \in Outcomes(browsers, {"ok"}) :
                                 Stop(t, rels)
    \/ Steps({"ok"})

ShutdownSpec == Init /\ [][ShutdownNext]_vars

\* calls do not overlap, the release step of destroy_browser may raise and
\* so may the body of the loop of the periodic task
FaultNext ==
    \/ Calls({"ok", "raise"}, Quiescent)
    \/ Steps({"ok", "raise"})
    \/ \E p \in PTasks : PeriodicCatches(p)

FaultSpec == Init /\ [][FaultNext]_vars

\* The pool with instances its client has put into in_use (no method of the
\* pool or of the manager does): k instances, some of them cleaned up
\* before.
PoolInit ==
    \E k \in 0..MaxIds : \E dead \in SUBSET (1..k) :
        /\ now = 0
        /\ browsers = << >>
        /\ global_stats = [ total_browsers_created |-> 0,
                            total_browsers_destroyed |-> 0,
                            total_errors |-> 0,
                            cache_hits |-> 0, cache_misses |-> 0 ]
        /\ options_cache = << >>
        /\ is_running = FALSE
        /\ cleanup_task = 0
        /\ cancel_req = {}
        /\ available = << >>
        /\ in_use = 1..k
        /\ lock = 0
        /\ instances = [ i \in 1..k |->
                           IF i \in dead THEN Cleanup(NewInstance(i), TRUE)
                                         ELSE NewInstance(i) ]
        /\ proc = [ i \in Ids |-> IF i > k THEN "none"
                                  ELSE IF i \in dead THEN "stopped"
                                  ELSE "running" ]
        /\ cleanup_calls = [ i \in Ids |-> 0 ]
        /\ nextId = k + 1
        /\ nextTab = k + 1
        /\ pc = [ p \in Procs |-> IF p \in Callers THEN "idle" ELSE "unborn" ]
        /\ op = [ p \in Procs |-> IF p \in Callers THEN "none" ELSE "periodic" ]
        /\ arg = [ p \in Procs |-> 0 ]
        /\ browser_type = [ p \in Procs |-> "none" ]
        /\ ids = [ p \in Procs |-> << >> ]
        /\ idx = [ p \in Procs |-> 1 ]
        /\ result = [ p \in Procs |-> "none" ]
        /\ ret = [ p \in Procs |-> 0 ]
        /\ cur = 0

\* overlapping calls of the pool's methods and of create_browser
PoolNext ==
    \E t \in Callers :
        \/ PoolAcquire(t)
        \/ AcquireGranted(t)
        \/ \E id \in Ids : PoolRelease(t, id)
        \/ ReleaseGranted(t)
        \/ \E stop_ok \in BOOLEAN : ReleaseTeardownReturns(t, stop_ok)
        \/ PoolClearCall(t)
        \/ PoolClearBegins(t)
        \/ \E stop_ok \in BOOLEAN : ClearTeardownReturns(t, stop_ok)
        \/ \E kind \in Kinds, ctor_ok \in BOOLEAN :
               CreateBrowser(t, kind, ctor_ok, << >>)
        \/ \E outcome \in {"tab", "none", "raise"} : StartReturns(t, outcome)
        \/ TabInitReturns(t)
        \/ Return(t)

PoolSpec == PoolInit /\ [][PoolNext]_vars

\* the ids a caller may pass: those handed out so far and one that never was
Named(id, tab) == id <= nextId /\ tab <= nextTab

\* calls of create_browser, destroy_browser, get_active_tab_id and the tab
\* handlers, one at a time; every start of a browser succeeds
TabNext ==
    \E t \in Callers :
        \/ Quiescent /\ CreateBrowser(t, "chrome", TRUE, << >>)
        \/ StartReturns(t, "tab")
        \/ TabInitReturns(t)
        \/ \E id \in Ids :
               Quiescent /\ Named(id, 1) /\ DestroyBrowser(t, id, << "ok" >>)
        \/ \E id \in Ids : Quiescent /\ Named(id, 1) /\ GetActiveTabId(t, id)
        \/ \E id \in Ids : Quiescent /\ NewTab(t, id)
        \/ \E ok \in BOOLEAN, background \in BOOLEAN :
               NewTabReturns(t, ok, background)
        \/ \E id \in Ids, tab \in TabIds :
               Quiescent /\ Named(id, tab) /\ CloseTab(t, id, tab)
        \/ \E id \in Ids, tab \in TabIds :
               Quiescent /\ Named(id, tab) /\ SetActiveTab(t, id, tab)
        \/ \E id \in Ids, tab \in TabIds \cup {0} :
               Quiescent /\ Named(id, tab) /\ GetTabWithFallback(t, id, tab)
        \/ \E id \in Ids, force \in BOOLEAN :
               Quiescent /\ Named(id, 1) /\ StopBrowser(t, id, force)
        \/ Return(t)

TabSpec == Init /\ [][TabNext]_vars

\* the sizes of the window of a collector: BrowserMetrics(max_history=1),
\* BrowserMetrics(max_history=3) and the default
HistorySizes == {1, 3, max_history}

\* a collector fresh from its constructor, in a manager that does nothing
MetricsInit ==
    \E history \in HistorySizes :
        /\ instances = (1 :> BrowserMetrics(history))
        /\ browsers = << >>
        /\ global_stats = [ total_browsers_created |-> 0,
                            total_browsers_destroyed |-> 0,
                            total_errors |-> 0,
                            cache_hits |-> 0, cache_misses |-> 0 ]
        /\ options_cache = << >>
        /\ is_running = FALSE
        /\ cleanup_task = 0
        /\ cancel_req = {}
        /\ available = << >>
        /\ in_use = {}
        /\ lock = 0
        /\ proc = [ i \in Ids |-> "none" ]
        /\ cleanup_calls = [ i \in Ids |-> 0 ]
        /\ now = 0
        /\ nextId = 1
        /\ nextTab = 1
        /\ pc = [ p \in Procs |-> IF p \in Callers THEN "idle" ELSE "unborn" ]
        /\ op = [ p \in Procs |-> IF p \in Callers THEN "none" ELSE "periodic" ]
        /\ arg = [ p \in Procs |-> 0 ]
        /\ browser_type = [ p \in Procs |-> "none" ]
        /\ ids = [ p \in Procs |-> << >> ]
        /\ idx = [ p \in Procs |-> 1 ]
        /\ result = [ p \in Procs |-> "none" ]
        /\ ret = [ p \in Procs |-> 0 ]
        /\ cur = 0

MetricsNext ==
    \/ \E duration \in Durations : RecordNavigation(duration)
    \/ RecordError
    \/ GetAvgNavigationTime
    \/ GetErrorRate

MetricsSpec == MetricsInit /\ [][MetricsNext]_vars

\* options builds, directly and from create_browser, one at a time
OptionsNext ==
    \E t \in Callers :
        \/ \E kwargs \in Kwargs : Quiescent /\ GetBrowserOptions(t, kwargs)
        \/ \E kind \in Kinds, ctor_ok \in BOOLEAN :
               Quiescent /\ CreateBrowser(t, kind, ctor_ok, << >>)
        \/ \E outcome \in {"tab", "none", "raise"} : StartReturns(t, outcome)
        \/ TabInitReturns(t)
        \/ Return(t)

OptionsSpec == Init /\ [][OptionsNext]_vars

\* operations on the tabs of the instances of the map, one at a time, while
\* time passes
OpNext ==
    \/ \E t \in Callers :
        \/ \E rels \in Outcomes(IdleBrowsers, {"ok"}) :
               Quiescent /\ CreateBrowser(t, "chrome", TRUE, rels)
        \/ StartReturns(t, "tab")
        \/ TabInitReturns(t)
        \/ \E id \in Ids, tab \in TabIds :
               Quiescent /\ Named(id, tab) /\ NavigateTo(t, id, tab)
        \/ \E ok \in BOOLEAN : NavigateReturns(t, ok)
        \/ \E id \in Ids, tab \in TabIds :
               Quiescent /\ Named(id, tab) /\ TabContextEnter(t, id, tab)
        \/ \E exit \in {"return", "raise", "cancel"} : TabContextExit(t, exit)
        \/ Return(t)
    \/ Tick

OpSpec == Init /\ [][OpNext]_vars

\* ---- the claims

idle_time(i) == now - instances[i].last_activity

\* a call of the method o by caller t has returned or raised
Returned(t, o) == pc[t] = "done" /\ op[t] = o

\* C1: however concurrent create_browser calls interleave, the active map
\* never holds more than max_browsers instances.
C1_MapWithinLimit == Cardinality(Range(browsers)) <= max_browsers

\* C2: when create_browser, destroy_browser, cleanup_all and the idle
\* reclamation do not overlap, the active map holds at most max_browsers
\* instances.
C2_SeqMapWithinLimit == Len(browsers) <= max_browsers

\* a creation has been refused at the limit, after instances were created
\* and destroyed
C2_Witness ==
    \E t \in Callers :
        /\ Returned(t, "create_browser")
        /\ result[t] = "ResourceExhausted"
        /\ Len(browsers) = max_browsers
        /\ global_stats.total_browsers_destroyed >= 1

\* C3: create_browser called with the pool empty, the active map at
\* max_browsers and no instance idle for longer than idle_timeout fails with
\* the capacity error, starts no process, and leaves the active map and the
\* created counter as they were.
C3_CapacityError ==
    [][ \A t \in Callers :
          ( /\ pc[t] = "idle" /\ op'[t] = "create_browser"
            /\ available = << >>
            /\ Len(browsers) = max_browsers
            /\ \A i \in Range(browsers) : idle_time(i) <= idle_timeout )
          => /\ pc'[t] = "done"
             /\ result'[t] = "ResourceExhausted"
             /\ proc' = proc
             /\ nextId' = nextId
             /\ browsers' = browsers
             /\ global_stats'.total_browsers_created
                  = global_stats.total_browsers_created ]_vars

C3_Witness ==
    \E t \in Callers :
        /\ Returned(t, "create_browser")
        /\ result[t] = "ResourceExhausted"
        /\ available = << >>
        /\ Len(browsers) = max_browsers
        /\ \A i \in Range(browsers) : idle_time(i) <= idle_timeout

\* the steps in which _cleanup_idle_browsers runs: create_browser at the
\* limit, and the periodic task woken from its sleep
SweepStep ==
    \/ \E t \in Callers :
          /\ pc[t] = "idle" /\ op'[t] = "create_browser"
          /\ available = << >>
          /\ Len(browsers) >= max_browsers
    \/ \E p \in PTasks : pc[p] = "sleeping" /\ pc'[p] = "log_stats"

\* C4: the idle reclamation, from create_browser at the limit or from the
\* periodic task, removes from the active map exactly the instances whose
\* idle time exceeds idle_timeout, and none whose idle time is at most
\* idle_timeout.
C4_ExactlyTheIdle ==
    [][ SweepStep =>
          Range(browsers) \ Range(browsers')
            = { i \in Range(browsers) : idle_time(i) > idle_timeout } ]_vars

\* a sweep of the periodic task has removed an instance and kept one whose
\* idle time is exactly idle_timeout
C4_Witness ==
    \E p \in PTasks :
        /\ pc[p] = "log_stats"
        /\ ids[p] # << >>
        /\ \E i \in Range(browsers) : idle_time(i) = idle_timeout

\* C5: cleanup_all invokes the cleanup of every instance that was in the
\* active map when it was called, exactly once, and leaves the map empty.
C5_EveryInstanceTornDown ==
    \A t \in Callers :
        Returned(t, "cleanup_all")
          => /\ browsers = << >>
             /\ \A i \in Range(ids[t]) : cleanup_calls[i] = 1

\* destroy_browser(id) hands an instance of the active map to
\* BrowserPool.release, which returns
ReleaseStep(t, id) ==
    /\ pc[t] = "idle" /\ op'[t] = "destroy_browser" /\ arg'[t] = id
    /\ id \in Range(browsers)
    /\ pc'[t] \in {"done", "teardown"} /\ result'[t] # "DestroyFailure"

\* C6: after release(instance), tracked in in_use or not, the instance is
\* in the available set (it was live and there was room) or its cleanup has
\* been invoked.
C6_PooledOrTornDown ==
    [][ \A t \in Callers, id \in Ids :
          ReleaseStep(t, id)
            => \/ /\ id \in Range(available')
                  /\ instances[id].is_active
                  /\ Len(available) < max_size
               \/ cleanup_calls'[id] = cleanup_calls[id] + 1 ]_vars

\* C7: destroy_browser with an id that is not in the active map returns
\* without raising and changes neither the map, nor the pool, nor the
\* counters.
C7_AbsentIsNoOp ==
    [][ \A t \in Callers :
          ( /\ pc[t] = "idle" /\ op'[t] = "destroy_browser"
            /\ arg'[t] \notin Range(browsers) )
          => /\ pc'[t] = "done"
             /\ result'[t] = "ok"
             /\ browsers' = browsers
             /\ available' = available
             /\ in_use' = in_use
             /\ global_stats' = global_stats
             /\ instances' = instances
             /\ proc' = proc ]_vars

\* a destroy_browser of an id that is not in the map, which holds others,
\* has returned
C7_Witness ==
    \E t \in Callers :
        /\ Returned(t, "destroy_browser")
        /\ result[t] = "ok"
        /\ global_stats.total_browsers_destroyed = 0
        /\ browsers # << >>
        /\ arg[t] \notin Range(browsers)

\* C8: when the release step of destroy_browser fails, the instance is
\* removed from the active map all the same, total_errors is incremented
\* and the failure is raised to the caller.
C8_RemovedDespiteFailure ==
    [][ \A t \in Callers :
          ( /\ pc[t] = "idle" /\ op'[t] = "destroy_browser"
            /\ arg'[t] \in Range(browsers)
            /\ result'[t] = "DestroyFailure" )
          => /\ arg'[t] \notin Range(browsers')
             /\ global_stats'.total_errors = global_stats.total_errors + 1
      ]_vars

\* C9: when stop() has returned, the active map and the pool are empty, the
\* manager is not running and the periodic task has finished; stop() does
\* not raise, with a task to cancel, without one, or called again.
C9_StoppedClean ==
    \A t \in Callers :
        Returned(t, "stop")
          => /\ result[t] = "ok"
             /\ browsers = << >>
             /\ available = << >> /\ in_use = {}
             /\ ~is_running
             /\ cleanup_task # 0 => pc[cleanup_task] = "finished"

\* a stop() that found instances in the map and a periodic task to cancel
\* has returned
C9_Witness ==
    \E t \in Callers :
        /\ Returned(t, "stop")
        /\ cleanup_task # 0
        /\ ids[t] # << >>

\* C10: an instance enters the active map with exactly one tab, under a
\* tab id no other instance holds, which is its active tab; it is the
\* instance create_browser returns.
C10_OneFreshTab ==
    [][ \A i \in Range(browsers') \ Range(browsers) :
          /\ Cardinality(instances'[i].tabs) = 1
          /\ instances'[i].active_tab_id \in instances'[i].tabs
          /\ \A j \in DOMAIN instances' \ {i} :
                instances'[i].active_tab_id \notin instances'[j].tabs
          /\ \E t \in Callers :
                /\ pc[t] = "tab_init" /\ pc'[t] = "done"
                /\ result'[t] = "ok" /\ ret'[t] = i ]_vars

\* create_browser has returned a second instance, registered with its tab
C10_Witness ==
    \E t \in Callers :
        /\ Returned(t, "create_browser")
        /\ result[t] = "ok"
        /\ ret[t] \in Range(browsers)
        /\ Len(browsers) >= 2
        /\ instances[ret[t]].tabs = { instances[ret[t]].active_tab_id }

\* C11: when create_browser has started a new process, the instance is
\* stored in the active map under the id generated for it,
\* total_browsers_created grows by exactly one, and the metrics of the
\* instance hold exactly one navigation sample, the startup time, with
\* total_operations = 1.
C11_StoredAndCounted ==
    [][ \A t \in Callers :
          (pc[t] = "tab_init" /\ pc'[t] = "done")
          => /\ result'[t] = "ok"
             /\ ret'[t] = arg[t]
             /\ ret'[t] \in Range(browsers') \ Range(browsers)
             /\ Len(browsers') = Len(browsers) + 1
             /\ global_stats'.total_browsers_created
                  = global_stats.total_browsers_created + 1
             /\ instances'[ret'[t]].navigation_times = << "startup" >>
             /\ instances'[ret'[t]].total_operations = 1 ]_vars

\* a second instance has been created and stored
C11_Witness ==
    \E t \in Callers :
        /\ Returned(t, "create_browser")
        /\ result[t] = "ok"
        /\ browsers # << >> /\ ret[t] = browsers[Len(browsers)]
        /\ global_stats.total_browsers_created = 2
        /\ instances[ret[t]].total_operations = 1

\* the active map as the idle sweep of a create_browser call leaves it
AfterGate(t) ==
    IF pc[t] = "idle" /\ Len(browsers) >= max_browsers
      THEN SelectSeq(browsers, LAMBDA i : idle_time(i) <= idle_timeout)
      ELSE browsers

\* C12: whenever create_browser fails after the capacity gate (browser kind
\* not supported, exception from the constructor or from start(), no
\* initial tab), total_errors grows by exactly one, the failure reaches the
\* caller, and the active map and total_browsers_created stay as they were
\* at the gate.
C12_FailureCounted ==
    [][ \A t \in Callers :
          ( /\ op'[t] = "create_browser"
            /\ pc[t] \in {"idle", "starting"} /\ pc'[t] = "done"
            /\ result'[t] \notin {"ok", "ResourceExhausted"} )
          => /\ result'[t] \in {"InvalidArgument", "BrowserStartFailure",
                                "InternalInvariantViolation"}
             /\ global_stats'.total_errors = global_stats.total_errors + 1
             /\ browsers' = AfterGate(t)
             /\ global_stats'.total_browsers_created
                  = global_stats.total_browsers_created ]_vars

\* a start() that returned no tab has failed a creation, after another
\* creation had failed
C12_Witness ==
    \E t \in Callers :
        /\ Returned(t, "create_browser")
        /\ result[t] = "InternalInvariantViolation"
        /\ global_stats.total_errors >= 2
        /\ browsers # << >>

C14_AvailableBounded == Len(available) <= max_size

\* a release is tearing down a live instance that found the set full
C14_Witness ==
    \E t \in Callers :
        /\ pc[t] = "release_teardown"
        /\ instances[arg[t]].is_active
        /\ Len(available) = max_size

\* C15: in every state of the pool, however acquire, release and clear
\* interleave, no instance is both in the available set and in the in-use
\* set.
C15_Disjoint == Range(available) \cap in_use = {}

\* one instance is pooled, another acquired again, while a call waits for
\* the lock
C15_Witness ==
    /\ available # << >>
    /\ in_use # {}
    /\ \E t \in Callers : pc[t] \in {"acquire_wait", "release_wait"}

\* acquire() runs, the lock in its hand
AcquireStep(t) ==
    \/ pc[t] = "idle" /\ op'[t] = "acquire" /\ lock = 0
    \/ pc[t] = "acquire_wait" /\ pc'[t] # "acquire_wait"

\* C16: acquire returns the instance that entered the available set first
\* and moves it to the in-use set; with the set empty it returns None at
\* once and changes nothing.
C16_AcquireFifo ==
    [][ \A t \in Callers :
          AcquireStep(t)
          => /\ pc'[t] = "done" /\ result'[t] = "ok"
             /\ IF available = << >>
                  THEN /\ ret'[t] = 0
                       /\ available' = available /\ in_use' = in_use
                  ELSE /\ ret'[t] = available[1]
                       /\ available' = Tail(available)
                       /\ in_use' = in_use \cup {available[1]} ]_vars

\* acquire has taken the first of several available instances
C16_Witness ==
    \E t \in Callers :
        /\ Returned(t, "acquire")
        /\ ret[t] # 0
        /\ available # << >>
        /\ \A i \in Range(available) : ret[t] < i

\* the instances that were handed to the pool: all but those of the active
\* map and the one a create_browser is about to store there
Handed ==
    { i \in DOMAIN instances :
        /\ i \notin Range(browsers)
        /\ \A q \in Callers : ~(pc[q] = "tab_init" /\ arg[q] = i) }

\* C17: when clear() has returned, the available set and the in-use set are
\* empty and the cleanup of every instance that was in either set has been
\* invoked.
C17_ClearedAndTornDown ==
    \A t \in Callers :
        Returned(t, "clear")
          => /\ available = << >> /\ in_use = {}
             /\ \A i \in Range(ids[t]) \cup Handed :
                   cleanup_calls[i] >= 1 /\ instances[i].tabs = {}

\* a clear() that found instances in both sets has returned
C17_Witness ==
    \E t \in Callers :
        /\ Returned(t, "clear")
        /\ Len(ids[t]) >= 3
        /\ \E i, j \in Range(ids[t]) : cleanup_calls[i] = 1 /\ i # j

\* C18: the pool does not hold its lock while a coroutine is suspended in a
\* teardown: whenever the event loop is free to run another coroutine, the
\* lock is free.
C18_LockNotHeldAcrossTeardown == cur = 0 => lock = 0

\* C19: in every state of an instance, after any sequence of create,
\* new_tab, close_tab, set_active_tab and cleanup, active_tab_id is null or
\* a key of the tab map.
C19_ActiveTabIsATab ==
    \A i \in DOMAIN instances :
        instances[i].active_tab_id = 0
          \/ instances[i].active_tab_id \in instances[i].tabs

\* C20: get_active_tab_id returns no stale id: for an instance of the map
\* with tabs it returns a key of the tab map, the cached active id if that
\* is still a key and otherwise another tab, which becomes the active tab;
\* it returns None exactly when the tab map is empty or the instance is not
\* in the map.
C20_NeverStale ==
    [][ \A t \in Callers :
          (pc[t] = "idle" /\ op'[t] = "get_active_tab_id")
          => LET id == arg'[t] IN
             /\ pc'[t] = "done"
             /\ ret'[t] = 0
                  <=> (id \notin Range(browsers) \/ instances[id].tabs = {})
             /\ ret'[t] # 0
                  => /\ ret'[t] \in instances[id].tabs
                     /\ instances[id].active_tab_id \in instances[id].tabs
                          => ret'[t] = instances[id].active_tab_id
                     /\ instances'[id].active_tab_id = ret'[t]
                     /\ instances'[id].tabs = instances[id].tabs
             /\ browsers' = browsers ]_vars

\* get_active_tab_id has returned a tab of an instance whose older tab was
\* closed, and that tab is the active one now
C20_Witness ==
    \E t \in Callers :
        /\ Returned(t, "get_active_tab_id")
        /\ ret[t] # 0
        /\ arg[t] \in Range(browsers)
        /\ instances[arg[t]].active_tab_id = ret[t]
        /\ Cardinality(instances[arg[t]].tabs) >= 2
        /\ \A x \in instances[arg[t]].tabs : ret[t] <= x
        /\ ret[t] > arg[t]

\* C21: get_tab_with_fallback fails with not-found exactly when the
\* instance is not in the map or its tab map is empty; otherwise it returns
\* a pair (tab, id) in which id is a key of the tab map and tab the entry
\* under that key: the supplied id when that is a key, and the active tab
\* id, repaired if stale, when the supplied id is missing or None.
C21_FallbackToActive ==
    [][ \A t \in Callers :
          (pc[t] = "idle" /\ op'[t] = "get_tab_with_fallback")
          => LET id == arg'[t][1]
                 tab_id == arg'[t][2]
             IN /\ pc'[t] = "done"
                /\ result'[t] \in {"ok", "NotFound"}
                /\ result'[t] = "NotFound"
                     <=> (id \notin Range(browsers) \/ instances[id].tabs = {})
                /\ result'[t] = "ok"
                     => LET rec == instances[id] IN
                        /\ ret'[t][2] \in rec.tabs
                        /\ ret'[t][1] = ret'[t][2]
                        /\ instances'[id].tabs = rec.tabs
                        /\ IF tab_id \in rec.tabs
                             THEN ret'[t][2] = tab_id
                             ELSE /\ ret'[t][2] = instances'[id].active_tab_id
                                  /\ rec.active_tab_id \in rec.tabs
                                       => ret'[t][2] = rec.active_tab_id ]_vars

\* a call with the id of the closed initial tab has returned the active tab
C21_Witness ==
    \E t \in Callers :
        /\ Returned(t, "get_tab_with_fallback")
        /\ result[t] = "ok"
        /\ arg[t] = << 1, 1 >>          \* the first instance, its initial tab
        /\ 1 \notin instances[1].tabs
        /\ ret[t][2] = instances[arg[t][1]].active_tab_id

\* the instance whose cleanup(), awaited by release() or by clear(), returns
\* in this step (0: none)
CleanedUp(t) ==
    IF pc[t] = "release_teardown" /\ pc'[t] # pc[t] THEN arg[t]
    ELSE IF pc[t] = "clearing" /\ idx'[t] # idx[t] THEN ids[t][idx[t]]
    ELSE 0

\* C22: when BrowserInstance.cleanup() has returned, the tab map of the
\* instance is empty and the instance is marked not live, also when the
\* stop of the browser process failed; cleanup raises nothing.
C22_CleanedUpNotLive ==
    [][ \A t \in Callers :
          CleanedUp(t) # 0
            => /\ instances'[CleanedUp(t)].tabs = {}
               /\ ~instances'[CleanedUp(t)].is_active
               /\ result'[t] \in {"none", "ok"} ]_vars

\* C23: tab_context raises not-found without yielding for a tab id that is
\* not in the tab map; for one that is, it yields that tab and does exactly
\* one bookkeeping action however the body exits: last_activity is updated
\* when the body completes normally, the error metric is incremented once
\* and the exception re-raised when the body raises.
C23_OneBookkeeping ==
    [][ \A t \in Callers :
          /\ (pc[t] = "idle" /\ op'[t] = "tab_context")
               => IF pc'[t] = "in_tab_context"
                    THEN ret'[t] \in instances[arg'[t]].tabs
                    ELSE /\ result'[t] = "TabNotFound"
                         /\ instances' = instances
          /\ (pc[t] = "in_tab_context" /\ pc'[t] = "done")
               => LET old == instances[arg[t]]
                      new == instances'[arg[t]]
                  IN IF result'[t] = "ok"
                       THEN /\ new.last_activity = now
                            /\ new.error_count = old.error_count
                       ELSE /\ new.error_count = old.error_count + 1
                            /\ new.last_activity = old.last_activity ]_vars

\* C24: a tab-scoped operation on an instance that returns success has
\* updated the last-activity timestamp of the instance before it returns.
C24_ActivityUpdated ==
    [][ \A t \in Callers :
          (pc[t] = "navigating" /\ pc'[t] = "done" /\ result'[t] = "ok")
            => instances'[arg[t]].last_activity = now ]_vars

\* C25: while the manager is started and not stopped, the periodic task
\* runs the idle reclamation at every interval: an instance of the active
\* map whose idle time exceeds idle_timeout, and that sees no further
\* activity, is eventually removed from the map.
C25_IdleEventuallyRemoved ==
    \A i \in Ids :
        (is_running /\ i \in Range(browsers) /\ get_idle_time(i) > idle_timeout)
          ~> (~is_running \/ i \notin Range(browsers))

\* a sweep of the periodic task of the running manager has removed every
\* instance it found idle
C25_Witness ==
    \E p \in PTasks :
        /\ pc[p] = "log_stats"
        /\ is_running /\ cleanup_task = p
        /\ ids[p] # << >>
        /\ Range(ids[p]) \cap Range(browsers) = {}

\* the keyword arguments the options in the cache were built from
BuiltFrom == { options_cache[k].built_from : k \in DOMAIN options_cache }

\* C26: an options build with the configuration of an earlier build is a
\* cache hit and returns the options object of that build; a build whose
\* configuration differs in any field from those built before is a miss;
\* every completed build adds exactly one to cache_hits + cache_misses.
C26_HitIffSameConfiguration ==
    [][ \A t \in Callers :
          (pc[t] = "idle" /\ op'[t] = "get_browser_options")
          => LET kwargs == arg'[t]
                 hits == global_stats'.cache_hits - global_stats.cache_hits
                 misses == global_stats'.cache_misses - global_stats.cache_misses
             IN /\ pc'[t] = "done" /\ result'[t] = "ok"
                /\ IF kwargs \in BuiltFrom
                     THEN /\ hits = 1 /\ misses = 0
                          /\ ret'[t] \in { options_cache[k] :
                                              k \in DOMAIN options_cache }
                     ELSE hits = 0 /\ misses = 1
                /\ ret'[t].built_from = kwargs ]_vars

\* the step is a call of the method m of the collector (every method sets
\* op, and nothing else steps)
MetricsCall(m) == op'[1] = m

\* C27: the error rate of a collector is 0 when total_operations is 0 and
\* 100 * error_count / total_operations otherwise, where total_operations
\* counts the operations recorded (every record_navigation, no
\* record_error); 2 errors in 3 operations give two thirds, 66.6 percent
\* within 0.1.
C27_ErrorRate ==
    [][ LET m == instances[1] IN
        /\ MetricsCall("get_error_rate")
             => IF m.total_operations = 0
                  THEN ret'[1] = << 0, 1 >>
                  ELSE /\ ret'[1][2] > 0
                       /\ ret'[1][1] * m.total_operations
                            = 100 * m.error_count * ret'[1][2]
        /\ MetricsCall("record_navigation")
             => /\ instances'[1].total_operations = m.total_operations + 1
                /\ instances'[1].error_count = m.error_count
        /\ MetricsCall("record_error")
             => /\ instances'[1].total_operations = m.total_operations
                /\ instances'[1].error_count = m.error_count + 1 ]_vars

\* the rate of 2 errors in 3 operations, of which the window holds one, has
\* been returned: between 66.5 and 66.7 percent
C27_Witness ==
    /\ op[1] = "get_error_rate"
    /\ instances[1].error_count = 2
    /\ instances[1].total_operations = 3
    /\ Len(instances[1].navigation_times) = 1
    /\ 665 * ret[1][2] <= 10 * ret[1][1]
    /\ 10 * ret[1][1] <= 667 * ret[1][2]

Least(samples) == CHOOSE x \in Range(samples) : \A y \in Range(samples) : x <= y

Greatest(samples) ==
    CHOOSE x \in Range(samples) : \A y \in Range(samples) : x >= y

\* the last n elements of a sequence
Last(samples, n) ==
    SubSeq(samples, Len(samples) - n + 1, Len(samples))

\* C28: the navigation window never holds more than max_history samples,
\* the oldest sample is evicted first, and total_operations counts every
\* recorded navigation; the average navigation time is 0 for an empty
\* window and otherwise lies between the least and the greatest sample of
\* the window.
C28_WindowAndAverage ==
    [][ LET m == instances[1] IN
        /\ Len(m.navigation_times) <= m.max_history
        /\ MetricsCall("record_navigation")
             => LET all == Append(m.navigation_times, instances'[1].navigation_times[
                                    Len(instances'[1].navigation_times)])
                IN /\ instances'[1].total_operations = m.total_operations + 1
                   /\ Len(all) <= m.max_history
                        => instances'[1].navigation_times = all
                   /\ Len(all) > m.max_history
                        => instances'[1].navigation_times
                             = Last(all, m.max_history)
        /\ (MetricsCall("get_avg_navigation_time") /\ m.navigation_times # << >>)
             => /\ ret'[1] >= Least(m.navigation_times)
                /\ ret'[1] <= Greatest(m.navigation_times)
        /\ (MetricsCall("get_avg_navigation_time") /\ m.navigation_times = << >>)
             => ret'[1] = 0 ]_vars

\* C29: an exception in a periodic sweep, other than the cancellation, does
\* not end the periodic task: a task ends only when it has been cancelled
\* or the manager is no longer running, whether the release inside the
\* sweep raised or the exception left the body of the loop.
C29_EndsOnlyCancelledOrStopped ==
    [][ \A p \in PTasks :
          (pc[p] # "finished" /\ pc'[p] = "finished")
            => (p \in cancel_req \/ ~is_running) ]_vars

\* a task is asleep again after an exception went from the body of its
\* loop to the handler
C29_Witness ==
    \E p \in PTasks :
        /\ pc[p] = "sleeping"
        /\ result[p] = "SweepError"
        /\ is_running
        /\ p \notin cancel_req

\* C30: every browser process that create_browser has started and that has
\* not been stopped belongs to an instance that is tracked (active map,
\* available set, in-use set) or that a call in progress still holds:
\* destroy_browser, the idle sweep, cleanup_all, stop and the failure paths
\* of create_browser never drop the last reference to an instance whose
\* process is running.
C30_RunningProcessTracked ==
    \A i \in Ids : proc[i] = "running" => i \in Live(0)

\* C31: in every state reached with the operations of BrowserManager alone
\* the available set and the in-use set of the pool are empty, so that
\* create_browser never returns a pooled instance; an instance enters
\* in_use only from the available set and the available set only from
\* in_use.
C31_PoolStaysEmpty ==
    /\ [](available = << >> /\ in_use = {})
    /\ [][ /\ in_use' \ in_use \subseteq Range(available)
           /\ Range(available') \ Range(available) \subseteq in_use
           /\ \A t \in Callers :
                 ~ ( /\ pc[t] = "idle" /\ op'[t] = "create_browser"
                     /\ pc'[t] = "done" /\ result'[t] = "ok" ) ]_vars

\* instances have been created and destroyed, by a caller and by a sweep,
\* and one is in the map
C31_Witness ==
    /\ global_stats.total_browsers_destroyed >= 2
    /\ browsers # << >>
    /\ \E p \in PTasks : pc[p] = "sleeping"
    /\ available = << >>
    /\ in_use = {}

\* C32: every instance create_browser returns, newly started or taken from
\* the pool, is in the active map under its id when the call returns (so
\* that get_browser finds it and destroy_browser releases it).
C32_ReturnedIsInMap ==
    \A t \in Callers :
        (Returned(t, "create_browser") /\ result[t] = "ok")
          => ret[t] \in Range(browsers)

\* C33: however the destroy requests for one instance id interleave (a
\* destroy_browser call, the sweep of the periodic task or of
\* create_browser, cleanup_all), none of them raises, total_errors is not
\* incremented (it moves only when a create_browser call fails), and
\* total_browsers_destroyed grows by exactly one for every instance that
\* leaves the map.
C33_DestroyedOnce ==
    [][ /\ \A p \in Procs : result'[p] # "DestroyFailure"
        /\ global_stats'.total_browsers_destroyed
              = global_stats.total_browsers_destroyed
                  + Cardinality(Range(browsers) \ Range(browsers'))
        /\ global_stats'.total_errors # global_stats.total_errors
              => \E t \in Callers :
                    /\ op'[t] = "create_browser"
                    /\ pc[t] # "done" /\ pc'[t] = "done"
                    /\ result'[t] # "ok" ]_vars

\* a second destroy_browser for instance 1, made after the instance had
\* left the map and been forgotten, has returned; it was counted once
C33_Witness ==
    \E t \in Callers :
        /\ Returned(t, "destroy_browser")
        /\ result[t] = "ok"
        /\ arg[t] = 1
        /\ 1 \notin DOMAIN instances
        /\ nextId = 2
        /\ global_stats.total_browsers_created = 1
        /\ global_stats.total_browsers_destroyed = 1
        /\ global_stats.total_errors = 0

\* stop() has returned (the manager had been started)
Stopped ==
    /\ ~is_running
    /\ cleanup_task # 0
    /\ \A q \in Callers : op[q] # "stop"

\* C34: a create_browser call that is suspended in the start of its browser
\* while stop() runs does not put its instance into the active map after
\* stop() has returned: with no create_browser call made after stop(), the
\* map stays empty once stop() has returned.
C34_EmptyAfterStop == Stopped => browsers = << >>

\* C35: in every state in which no call of the manager is in progress,
\* total_browsers_created minus total_browsers_destroyed is the number of
\* instances in the active map; neither counter ever decreases.
C35_CountersMatchMap ==
    /\ [](Quiescent
            => global_stats.total_browsers_created
                 - global_stats.total_browsers_destroyed = Len(browsers))
    /\ [][ /\ global_stats'.total_browsers_created
                >= global_stats.total_browsers_created
           /\ global_stats'.total_browsers_destroyed
                >= global_stats.total_browsers_destroyed ]_vars

\* C36: in every state of a metrics collector error_count is at most
\* total_operations, so that every error rate returned lies between 0 and
\* 100 percent, whatever navigations and errors have been recorded.
C36_ErrorsWithinOperations ==
    /\ instances[1].error_count <= instances[1].total_operations
    /\ op[1] = "get_error_rate"
         => /\ ret[1][1] >= 0
            /\ ret[1][1] <= 100 * ret[1][2]

\* the periodic tasks that have been created and have not ended
AliveTasks == { p \in PTasks : pc[p] \notin {"unborn", "finished"} }

\* C37: start() is idempotent and, however start() and stop() calls follow
\* or overlap one another, at most one periodic cleanup task is alive at any
\* time; a start() made while the manager is running creates no task.
C37_OneTaskAlive ==
    /\ [](Cardinality(AliveTasks) <= 1)
    /\ [][ \A t \in Callers :
             (pc[t] = "idle" /\ op'[t] = "start" /\ is_running)
               => /\ cleanup_task' = cleanup_task
                  /\ is_running'
                  /\ \A p \in PTasks : pc'[p] = pc[p] ]_vars

\* C37 as amended: start() is idempotent and, however start() and stop()
\* calls follow or overlap one another, at most one periodic cleanup task
\* that has not been cancelled is alive at any time (while stop() awaits the
\* task it cancelled, a start() may create the next one); a start() made
\* while the manager is running creates no task.
C37_OneTaskNotCancelled ==
    /\ [](Cardinality(AliveTasks \ cancel_req) <= 1)
    /\ [][ \A t \in Callers :
             (pc[t] = "idle" /\ op'[t] = "start" /\ is_running)
               => /\ cleanup_task' = cleanup_task
                  /\ is_running'
                  /\ \A p \in PTasks : pc'[p] = pc[p] ]_vars

\* a start() made while a stop() awaits the task it cancelled has returned:
\* the cancelled task has not ended and the next one exists
C37_Witness ==
    \E t, q \in Callers :
        /\ pc[q] = "await_task"
        /\ Returned(t, "start")
        /\ is_running
        /\ arg[q] \in AliveTasks \cap cancel_req
        /\ cleanup_task \in AliveTasks \ cancel_req

\* C38: when the new_tab tool reports success with tab id T for a browser
\* of the map, T is a key of the tab map of that instance when the call
\* returns, it is the active tab or (background requested) the active tab
\* is the one it was, and total_tabs_created has grown by one.
C38_ReportedTabExists ==
    [][ \A t \in Callers :
          ( /\ pc[t] = "new_tab_wait" /\ pc'[t] = "done"
            /\ result'[t] = "ok" )
          => LET i == arg[t] IN
             /\ ret'[t] \in instances'[i].tabs
             /\ instances'[i].active_tab_id
                  \in {ret'[t], instances[i].active_tab_id}
             /\ instances'[i].total_tabs_created
                  = instances[i].total_tabs_created + 1 ]_vars

\* C39: no instance ever tracks more tabs than max_tabs_per_browser,
\* whatever new_tab and close_tab calls are made.
C39_TabsWithinLimit ==
    \A i \in DOMAIN instances :
        Cardinality(instances[i].tabs) <= max_tabs_per_browser

\* C40: stop_browser without force on an instance that tracks a tab reports
\* failure and changes neither the map, nor the instance, nor the counters,
\* nor the process; an instance leaves the map in a stop_browser call only
\* with force or with an empty tab map.
C40_StopNeedsForce ==
    [][ \A t \in Callers :
          (pc[t] = "idle" /\ op'[t] = "stop_browser")
          => LET id == arg'[t][1]
                 force == arg'[t][2]
             IN /\ ( /\ ~force /\ id \in Range(browsers)
                     /\ instances[id].tabs # {} )
                     => /\ result'[t] = "OpenTabs"
                        /\ browsers' = browsers
                        /\ instances' = instances
                        /\ global_stats' = global_stats
                        /\ proc' = proc
                        /\ available' = available /\ in_use' = in_use
                /\ id \in Range(browsers) \ Range(browsers')
                     => (force \/ instances[id].tabs = {}) ]_vars

\* stop_browser without force has reported failure for a browser of the
\* map that tracks two tabs
C40_Witness ==
    \E t \in Callers :
        /\ Returned(t, "stop_browser")
        /\ result[t] = "OpenTabs"
        /\ ~arg[t][2]
        /\ arg[t][1] \in Range(browsers)
        /\ Cardinality(instances[arg[t][1]].tabs) = 2

=============================================================================
